---- MODULE Spec2Model ----
\* Verification model of the trading orchestrator (src/src/core/orchestrator.ts)
\* and the position manager (src/src/positions/manager.ts).
\*
\* Every async function is cut at its awaits: one action is the synchronous run
\* of code between two awaits of one task.  Prices are integers (entry 10),
\* USDC amounts are integer cents.
EXTENDS Integers, Sequences, FiniteSets, TLC

\* ------------------------------------------------------------------ bounds
MaxPid == 2
MaxPositions == 2
MaxCycleTasks == 2
MaxAdvice == 1
MaxCronTasks == 2
SmallCap == 1

\* ------------------------------------------------------- program constants
HistoryCap == 100
DefaultTrailPercent == 20
MinUsdcBalance == 1000
TradePercent == 10
HourMs == 2
StopLossPercent == 5
TakeProfitPercent == 20

\* ------------------------------------------------------------- environment
AddrLow == {"a", "b"}
NoPrice == 0
NoAlloc == -1
EntryPrice == 10
InitialUsdc == 1200
StartTime == 3
MaxTime == 8
MaxSellCalls == 2
Symbols == {"TKA", "TKB", "ZZZ"}
AdviceActions == {"hold", "sell", "tighten-stop"}
WriteFaults == {"none", "hist", "pos"}

Pids == 1..MaxPid
CycleIds == 1..MaxCycleTasks
\* one monitor tick and one /sell command are in flight at a time
MonIds == {1}
CmdIds == {1}

\* String.prototype.toLowerCase on the modelled addresses
Lower(x) == IF x = "A" THEN "a" ELSE x

\* tokenSymbol reported by the scanner for a token
SymbolOf(x) == IF Lower(x) = "a" THEN "TKA" ELSE "TKB"

Range(s) == {s[k] : k \in 1..Len(s)}

VARIABLES
  cronTasks,             \* number of scheduled cron tasks that are active
  cronTask,              \* module variable cronTask is non-null
  stopLossInterval,      \* module variable stopLossInterval is non-null
  life,                  \* ghost: the last of startOrchestrator and stopOrchestrator
  isRunning,
  isEvaluatingStopLoss,
  tradingPaused,
  dryRun,                \* config.dryRun
  aiEnabled,             \* isAIEnabled()
  positions,             \* array of position objects (by object id)
  obj,                   \* the position objects
  nextPid,
  history,
  blacklist,             \* the in-memory Set of lower-cased addresses
  disk,                  \* positions.json, blacklist.json and history.json
  monitors,              \* the monitored tokens the chat handlers add
  chain,                 \* wallet holds a non-zero balance of the token
  usdc,                  \* wallet USDC balance in cents
  cyc,                   \* tradingCycle invocations
  mon,                   \* stopLossMonitorTick invocations
  cmd,                   \* /sell command handlers
  env,                   \* what the collaborators may do in this run
  now,                   \* Date.now() in half hours
  lastEthWarning,
  cooldownUntil,         \* the focused token is not re-entered before this time
  ethWarnings,           \* ghost: the times at which notifyLowEth was called
  last                   \* ghost: what the step just taken did

vars == <<cronTasks, cronTask, stopLossInterval, life, isRunning, isEvaluatingStopLoss,
          tradingPaused, dryRun, aiEnabled, positions, obj, nextPid, history,
          blacklist, disk, monitors, chain, usdc, cyc, mon, cmd, env, now,
          lastEthWarning, cooldownUntil, ethWarnings, last>>

clock == <<now, lastEthWarning, cooldownUntil, ethWarnings>>
\* The orchestrator actions take the outcome of a write as a fault of
\* env.faults; the content of the files is followed by the store calls.
files == <<blacklist, disk, monitors>>
timers == <<cronTasks, cronTask, stopLossInterval, life>>
config == <<dryRun, aiEnabled, env>>

NoObj == [addr |-> "", entry |-> 0, cur |-> 0, high |-> 0]
NoPrices == [x \in AddrLow |-> NoPrice]

\* note collects what one synchronous run did; it is moved to last when the
\* run ends.  bought is a ghost: this cycle has called buyToken.
IdleCyc == [pc |-> "idle", addrs |-> {}, prices |-> NoPrices, rest |-> <<>>,
            sold |-> {}, fsAddr |-> "", fsPid |-> 0, sellQ |-> <<>>,
            slots |-> 0, toBuy |-> <<>>, amt |-> 0, bought |-> FALSE, note |-> {}]
IdleMon == [pc |-> "idle", addrs |-> {}, prices |-> NoPrices, rest |-> <<>>,
            sold |-> {}, note |-> {}]
IdleCmd == [pc |-> "idle", fsAddr |-> "", fsPid |-> 0, note |-> {}]

Noted(t, what) == [t EXCEPT !.note = @ \cup {what}]

Quiet(t) == [t EXCEPT !.note = {}]

\* ------------------------------------------------------------ store (manager.ts)

\* positions.findIndex by lower-cased address; 0 when absent
RECURSIVE FindIndexFrom(_, _, _, _)
FindIndexFrom(P, O, a, k) ==
  IF k > Len(P) THEN 0
  ELSE IF Lower(O[P[k]].addr) = Lower(a) THEN k
  ELSE FindIndexFrom(P, O, a, k + 1)

FindIndex(P, O, a) == FindIndexFrom(P, O, a, 1)

getPosition(P, O, a) == IF FindIndex(P, O, a) = 0 THEN 0 ELSE P[FindIndex(P, O, a)]

Splice(P, k) == SubSeq(P, 1, k - 1) \o SubSeq(P, k + 1, Len(P))

\* removePosition: the in-memory array after the call
removePosition(P, O, a) ==
  IF FindIndex(P, O, a) = 0 THEN P ELSE Splice(P, FindIndex(P, O, a))

addHistoryEntryKeepOldest(h, e) ==
  LET h2 == Append(h, e)
  IN IF Len(h2) > HistoryCap THEN SubSeq(h2, 1, HistoryCap) ELSE h2

\* addHistoryEntry: push, then keep the last 100
addHistoryEntry(h, e) ==
  LET h2 == Append(h, e)
  IN IF Len(h2) > HistoryCap
       THEN SubSeq(h2, Len(h2) - HistoryCap + 1, Len(h2))
       ELSE h2

\* A file of the data directory: there with content that parses, absent, or
\* there with content that JSON.parse rejects (data is then the collection
\* whose text the file holds a part of).
File(data) == [state |-> "ok", data |-> data]
Missing(empty) == [state |-> "missing", data |-> empty]
Corrupt(data) == [state |-> "corrupt", data |-> data]

NoFiles == [pos |-> Missing(<<>>), bl |-> Missing({}), hist |-> Missing(<<>>)]

\* JSON.stringify(positions): the objects by value
PosImage(P, O) == [k \in 1..Len(P) |-> O[P[k]]]

\* writeFileSync rewrites the file, or throws and leaves it as it was or
\* truncated
SaveOutcomes == {"written", "kept", "torn"}

\* saveJson: the file after the call
saveJson(file, data, out) ==
  CASE out = "written" -> File(data)
    [] out = "kept" -> file
    [] out = "torn" -> Corrupt(data)

\* a loader that hands out whatever the file holds
loadJsonUnchecked(file, fallback) == IF file.state = "missing" THEN fallback ELSE file.data

\* loadJson: the fallback when the file is missing or does not parse
loadJson(file, fallback) == IF file.state = "ok" THEN file.data ELSE fallback

\* a store that undoes the in-memory change when the write throws
RolledBack(before, after) == before

\* the in-memory collection after a write that threw: no catch, no undo
KeptOnThrow(before, after) == after

SellEntry(o, pid, why) == [type |-> "sell", addr |-> o.addr, pid |-> pid, reason |-> why]
BuyEntry(o, pid) == [type |-> "buy", addr |-> o.addr, pid |-> pid, reason |-> ""]

\* ------------------------------------------------------ stop-loss engine

\* STOP_LOSS_TIERS, sorted descending by minProfitPercent
STOP_LOSS_TIERS == << [minProfitPercent |-> 100, trailPercent |-> 5],
                      [minProfitPercent |-> 50, trailPercent |-> 10],
                      [minProfitPercent |-> 0, trailPercent |-> 20] >>

\* a tier that needs more than its minimum profit
TierAppliesAbove(o, tier) ==
  (o.high - o.entry) * 100 > tier.minProfitPercent * o.entry

\* profitPercent >= tier.minProfitPercent, with
\* profitPercent = (highestPrice - entryPrice) / entryPrice * 100
TierApplies(o, tier) ==
  (o.high - o.entry) * 100 >= tier.minProfitPercent * o.entry

RECURSIVE TrailFrom(_, _)
TrailFrom(o, k) ==
  IF k > Len(STOP_LOSS_TIERS) THEN DefaultTrailPercent
  ELSE IF TierApplies(o, STOP_LOSS_TIERS[k]) THEN STOP_LOSS_TIERS[k].trailPercent
  ELSE TrailFrom(o, k + 1)

\* a stop that trails the current price
computeStopPriceOfCurrent(o) ==
  [trailPercent |-> TrailFrom(o, 1),
   stopPrice100 |-> o.cur * (100 - TrailFrom(o, 1))]

\* computeStopPrice: trailPercent and 100 * stopPrice
computeStopPrice(o) ==
  [trailPercent |-> TrailFrom(o, 1),
   stopPrice100 |-> o.high * (100 - TrailFrom(o, 1))]

\* a stop that fires only strictly below the stop price
StopTriggeredBelow(o) == o.cur * 100 < computeStopPrice(o).stopPrice100

\* currentPrice <= stopPrice
StopTriggered(o) == o.cur * 100 <= computeStopPrice(o).stopPrice100

\* a highest price that follows the current price
UpdatePriceFollowing(o, p) == [o EXCEPT !.cur = p, !.high = p]

\* pos.currentPrice = currentPrice; raise highestPrice when exceeded
UpdatePrice(o, p) == [o EXCEPT !.cur = p, !.high = IF p > @ THEN p ELSE @]

\* -------------------------------------------- evaluateStopLosses (manager.ts)
\* A frame is any task record with the fields pc, addrs, prices, rest, sold.
\* rest is what is left of the snapshot [...positions]; its head is the
\* position being processed.

Outcome(t, P, O, H, C, U) == [t |-> t, P |-> P, O |-> O, H |-> H, C |-> C, U |-> U]

\* the entries of the price map that the rest of the loop will read
StillNeeded(pm, rest, O) ==
  [x \in AddrLow |-> IF \E k \in 1..Len(rest) : Lower(O[rest[k]].addr) = x
                       THEN pm[x] ELSE NoPrice]

\* a loop that takes a missing price for a price
PriceNeverMissing(p) == FALSE

\* currentPrice == null
PriceMissing(p) == p = NoPrice

\* the synchronous run of the for-loop from the head of t.rest up to the next
\* await sellAllToken, or through the final saveJson to the return
RECURSIVE EvalLoop(_, _, _, _)
EvalLoop(O, t, dry, wf) ==
  IF t.rest = <<>>
    THEN [O |-> O, t |-> IF wf = "pos" THEN Noted([t EXCEPT !.pc = "thrown"], "saveThrew")
                         ELSE [t EXCEPT !.pc = "ret"]]
    ELSE LET pid == Head(t.rest)
             p == t.prices[Lower(O[pid].addr)]
             next == [t EXCEPT !.rest = Tail(@)]
             O2 == [O EXCEPT ![pid] = UpdatePrice(@, p)]
         IN IF PriceMissing(p) THEN EvalLoop(O, Noted(next, "noPrice"), dry, wf)
            ELSE IF ~StopTriggered(O2[pid]) THEN EvalLoop(O2, next, dry, wf)
            ELSE IF dry
              THEN EvalLoop(O2, Noted([next EXCEPT !.sold = @ \cup {pid}], "dryStop"),
                            dry, wf)
              ELSE [O |-> O2, t |-> Noted([t EXCEPT !.pc = "bal",
                                              !.prices = StillNeeded(@, Tail(t.rest), O)],
                                          "stopTriggered")]

\* an evaluation that the pause switch turns off
EvalCallUnlessPaused(t, P, O) ==
  IF Len(P) = 0 \/ tradingPaused
    THEN [t EXCEPT !.pc = "ret", !.sold = {}]
    ELSE [t EXCEPT !.pc = "prices", !.sold = {},
                   !.addrs = {Lower(O[P[k]].addr) : k \in 1..Len(P)}]

\* evaluateStopLosses up to await getTokenPrices
EvalCall(t, P, O) ==
  IF Len(P) = 0
    THEN [t EXCEPT !.pc = "ret", !.sold = {}]
    ELSE [t EXCEPT !.pc = "prices", !.sold = {},
                   !.addrs = {Lower(O[P[k]].addr) : k \in 1..Len(P)}]

\* what getTokenPrices may resolve to for the addresses asked
PriceMaps(asked) ==
  {pm \in [AddrLow -> env.prices \cup {NoPrice}] :
     \A x \in AddrLow \ asked : pm[x] = NoPrice}

\* getTokenPrices resolved with the map pm; the loop starts on [...positions];
\* config.dryRun is dry
EvalPricesIn(t, pm, wf, dry) ==
  LET t1 == [t EXCEPT !.prices = [x \in AddrLow |->
                                    IF x \in t.addrs THEN pm[x] ELSE NoPrice],
                      !.addrs = {},
                      !.rest = positions]
      r == EvalLoop(obj, t1, dry, wf)
  IN Outcome(r.t, positions, r.O, history, chain, usdc)

EvalPrices(t, pm, wf) == EvalPricesIn(t, pm, wf, dryRun)

\* sellAllToken: getTokenBalance resolved (or threw)
EvalBalance(t, out, wf) ==
  LET pid == Head(t.rest)
      r == EvalLoop(obj, Noted([t EXCEPT !.rest = Tail(@)], "sellFailed"), dryRun, wf)
  IN IF out = "throw"
       THEN Outcome(Noted([t EXCEPT !.pc = "thrown"], "sellThrew"),
                    positions, obj, history, chain, usdc)
     ELSE IF ~chain[Lower(obj[pid].addr)]
       THEN Outcome(r.t, positions, r.O, history, chain, usdc)
     ELSE Outcome([t EXCEPT !.pc = "tx"], positions, obj, history, chain, usdc)

\* the history entry and the removal that follow a successful stop-loss sell;
\* config.dryRun is dry
StopLossSoldIn(t, wf, dry) ==
  LET pid == Head(t.rest)
      a == Lower(obj[pid].addr)
      H2 == addHistoryEntry(history, SellEntry(obj[pid], pid, "stop-loss"))
      P2 == removePosition(positions, obj, obj[pid].addr)
      C2 == [chain EXCEPT ![a] = FALSE]
      U2 == usdc
      r == EvalLoop(obj, Noted([t EXCEPT !.rest = Tail(@), !.sold = @ \cup {pid}],
                                "stopSold"), dry, wf)
  IN IF wf = "hist"
       THEN Outcome(Noted([t EXCEPT !.pc = "thrown"], "saveThrew"),
                    positions, obj, H2, C2, U2)
     ELSE IF wf = "pos" /\ P2 # positions
       THEN Outcome(Noted([t EXCEPT !.pc = "thrown"], "saveThrew"), P2, obj, H2, C2, U2)
     ELSE Outcome(r.t, P2, r.O, H2, C2, U2)

StopLossSold(t, wf) == StopLossSoldIn(t, wf, dryRun)

\* sellAllToken resolved: sellToken returned its SwapResult
EvalTx(t, ok, wf) ==
  LET pid == Head(t.rest)
      r == EvalLoop(obj, Noted([t EXCEPT !.rest = Tail(@)], "sellFailed"), dryRun, wf)
  IN IF ok /\ chain[Lower(obj[pid].addr)]
       THEN StopLossSold(t, wf)
       ELSE Outcome(r.t, positions, r.O, history, chain, usdc)

\* ------------------------------------------------------ forceSell (manager.ts)
\* A frame is any task record with the fields pc, fsAddr, fsPid.

\* forceSell up to await getTokenPrice
FsCall(t, a, P, O) ==
  IF getPosition(P, O, a) = 0
    THEN [t EXCEPT !.pc = "fsRet"]
    ELSE [t EXCEPT !.pc = "fsPrice", !.fsAddr = a, !.fsPid = getPosition(P, O, a)]

\* getTokenPrice resolved, in dry-run mode (dry) or live
FsPriceIn(t, wf, dry) ==
  LET P2 == removePosition(positions, obj, t.fsAddr)
  IN IF dry
       THEN Outcome(Noted([t EXCEPT !.pc = IF wf = "pos" /\ P2 # positions
                                             THEN "fsThrown" ELSE "fsRet"], "dryForced"),
                    P2, obj, history, chain, usdc)
       ELSE Outcome([t EXCEPT !.pc = "fsBal"], positions, obj, history, chain, usdc)

FsPrice(t, wf) == FsPriceIn(t, wf, dryRun)

\* sellAllToken: getTokenBalance resolved (or threw)
FsBalance(t, out) ==
  Outcome([t EXCEPT !.pc = IF out = "throw" THEN "fsThrown"
                           ELSE IF chain[Lower(t.fsAddr)] THEN "fsTx"
                           ELSE "fsRet"],
          positions, obj, history, chain, usdc)

\* the history entry and the removal that follow a successful forced sell
ForceSold(t, wf) ==
  LET a == Lower(t.fsAddr)
      H2 == addHistoryEntry(history, SellEntry(obj[t.fsPid], t.fsPid, "manual"))
      P2 == removePosition(positions, obj, t.fsAddr)
      C2 == [chain EXCEPT ![a] = FALSE]
      U2 == usdc
  IN IF wf = "hist"
       THEN Outcome([t EXCEPT !.pc = "fsThrown"], positions, obj, H2, C2, U2)
     ELSE IF wf = "pos" /\ P2 # positions
       THEN Outcome([t EXCEPT !.pc = "fsThrown"], P2, obj, H2, C2, U2)
     ELSE Outcome(Noted([t EXCEPT !.pc = "fsRet"], "forceSold"), P2, obj, H2, C2, U2)

\* sellAllToken resolved: sellToken returned its SwapResult
FsTx(t, ok, wf) ==
  IF ok /\ chain[Lower(t.fsAddr)]
    THEN ForceSold(t, wf)
    ELSE Outcome([t EXCEPT !.pc = "fsRet"], positions, obj, history, chain, usdc)

\* ---------------------------------------------------------------- heap
\* A position object lives while the array or a task's local still holds it.
Refs(P, cy, mo, cm) ==
  Range(P)
    \cup UNION {Range(cy[c].rest) \cup {cy[c].fsPid} : c \in CycleIds}
    \cup UNION {Range(mo[m].rest) : m \in MonIds}
    \cup {cm[d].fsPid : d \in CmdIds}

GC(O, P, cy, mo, cm) ==
  [p \in Pids |-> IF p \in Refs(P, cy, mo, cm) THEN O[p] ELSE NoObj]

Same(t) == Outcome(t, positions, obj, history, chain, usdc)

Commit(F, cy, mo, cm, what) ==
  /\ last' = what
  /\ positions' = F.P
  /\ history' = F.H
  /\ chain' = F.C
  /\ usdc' = F.U
  /\ cyc' = cy
  /\ mon' = mo
  /\ cmd' = cm
  /\ obj' = GC(F.O, F.P, cy, mo, cm)

\* an evaluation counts as over only when it returns
EvalEndedOnReturn(t) == t.pc = "ret"

\* evaluateStopLosses has returned or thrown: the finally block runs
EvalEnded(t) == t.pc \in {"ret", "thrown"}

\* ------------------------------------------------ tradingCycle (orchestrator.ts)

\* a pause switch that is never read as set
PausedUnseen == FALSE

isTradingPaused == tradingPaused

\* config.maxPositions
maxPositions == env.maxPositions

getOpenPositionCount(P) == Len(P)

\* getHeldTokenAddresses
getHeldTokenAddresses(P, O) == {Lower(O[P[k]].addr) : k \in 1..Len(P)}

\* the locals of a finished callee are dropped
CleanCyc(t) == [IdleCyc EXCEPT !.bought = t.bought, !.note = t.note]

\* steps 4 and 5 up to await getUsdcBalance: "done" is the return
\* the free slots counted without looking at the open positions
GateAllSlots(t, P) ==
  LET t1 == CleanCyc(t)
  IN IF isTradingPaused THEN Noted([t1 EXCEPT !.pc = "done"], "gatePaused")
     ELSE [t1 EXCEPT !.pc = "usdc", !.slots = maxPositions]

\* step 4: the pause flag, then the free slots counted from the open positions
Gate(t, P) ==
  LET t1 == CleanCyc(t)
  IN IF isTradingPaused THEN Noted([t1 EXCEPT !.pc = "done"], "gatePaused")
     ELSE IF maxPositions - getOpenPositionCount(P) <= 0
       THEN Noted([t1 EXCEPT !.pc = "done"], "gateFull")
     ELSE [t1 EXCEPT !.pc = "usdc", !.slots = maxPositions - getOpenPositionCount(P)]

\* where the cycle goes when a callee has returned or thrown
CycleResolve(t, P) ==
  CASE t.pc = "ret" ->
         IF t.sold # {} \/ aiEnabled
           THEN [CleanCyc(t) EXCEPT !.pc = "post"]
           ELSE Gate(t, P)
    [] t.pc \in {"thrown", "fsThrown"} -> [CleanCyc(t) EXCEPT !.pc = "failed"]
    [] t.pc = "fsRet" ->
         IF Len(t.sellQ) > 1
           THEN [CleanCyc(t) EXCEPT !.pc = "advise", !.sellQ = Tail(t.sellQ)]
           ELSE Gate(t, P)
    [] t.pc = "gate" -> Gate(t, P)
    [] OTHER -> t

\* the finally block of tradingCycle runs when the body is left
CycleLeave(c, F, flag) ==
  LET t == CycleResolve(F.t, F.P)
      left == t.pc = "done"
  IN /\ Commit(F, [cyc EXCEPT ![c] = IF left THEN IdleCyc ELSE Quiet(t)], mon, cmd, t.note)
     /\ isRunning' = IF left THEN FALSE ELSE isRunning
     /\ isEvaluatingStopLoss' = flag
     /\ UNCHANGED <<timers, config, files, tradingPaused, nextPid>>

CycleCommit(c, F, flag) == CycleLeave(c, F, flag) /\ UNCHANGED clock

FreeCycle == CHOOSE c \in CycleIds : cyc[c].pc = "idle" /\ \A e \in 1..(c - 1) : cyc[e].pc # "idle"

\* a tradingCycle that never sees a cycle in progress
CycleOverlapUnseen == FALSE

\* the guard of tradingCycle
CycleOverlap == isRunning

\* tradingCycle() up to await checkEthBalance
tradingCycleCall ==
  /\ \E c \in CycleIds : cyc[c].pc = "idle"
  /\ IF CycleOverlap
       THEN /\ last' = {"cycleSkipped"}
            /\ UNCHANGED <<isRunning, cyc>>
       ELSE /\ last' = {}
            /\ isRunning' = TRUE
            /\ cyc' = [cyc EXCEPT ![FreeCycle] = [IdleCyc EXCEPT !.pc = "eth"]]

\* cron fires
CronFire ==
  /\ cronTasks > 0
  /\ tradingCycleCall
  /\ UNCHANGED <<timers, config, files, clock, isEvaluatingStopLoss, tradingPaused, positions,
                 obj, nextPid, history, chain, usdc, mon, cmd>>

\* the outcomes of getEthBalance: at or above the threshold, below it, rejected
EthOutcomes == {"ok", "low", "throw"}

\* a warning at every low reading
EthWarningAlways(out) == out = "low"

\* now - lastEthWarning > 60 * 60 * 1000
EthWarningDue(out) == out = "low" /\ now - lastEthWarning > HourMs

\* checkEthBalance: the warning is sent at most once per hour; errors are caught
checkEthBalance(out) ==
  IF EthWarningDue(out)
    THEN /\ lastEthWarning' = now
         /\ ethWarnings' = Append(ethWarnings, now)
    ELSE UNCHANGED <<lastEthWarning, ethWarnings>>

\* checkEthBalance returned; step 2 sets the stop-loss guard and calls
\* evaluateStopLosses
CycleEth(c) ==
  /\ cyc[c].pc = "eth"
  /\ \E out \in env.eth :
       /\ checkEthBalance(out)
       /\ LET t == EvalCall(IF EthWarningDue(out) THEN Noted(cyc[c], "lowEth") ELSE cyc[c],
                            positions, obj)
          IN CycleLeave(c, Same(t), ~EvalEnded(t))
  /\ UNCHANGED <<now, cooldownUntil>>

CycleEvalPrices(c) ==
  /\ cyc[c].pc = "prices"
  /\ \E pm \in PriceMaps(cyc[c].addrs), wf \in env.faults :
       LET F == EvalPrices(cyc[c], pm, wf)
       IN CycleCommit(c, F, IF EvalEnded(F.t) THEN FALSE ELSE isEvaluatingStopLoss)

CycleEvalBalance(c) ==
  /\ cyc[c].pc = "bal"
  /\ \E out \in {"throw", "read"}, wf \in env.faults :
       LET F == EvalBalance(cyc[c], out, wf)
       IN CycleCommit(c, F, IF EvalEnded(F.t) THEN FALSE ELSE isEvaluatingStopLoss)

CycleEvalTx(c) ==
  /\ cyc[c].pc = "tx"
  /\ \E ok \in BOOLEAN, wf \in env.faults :
       LET F == EvalTx(cyc[c], ok, wf)
       IN CycleCommit(c, F, IF EvalEnded(F.t) THEN FALSE ELSE isEvaluatingStopLoss)

\* the stop-loss notifications are sent; with the analyst on, step 3 reads the
\* ETH and USDC balances (a read may throw), snapshots getPositions() and
\* calls reviewPortfolio
CyclePost(c) ==
  /\ cyc[c].pc = "post"
  /\ \E out \in {"throw", "read"} :
       LET t == IF aiEnabled /\ out = "throw"
                  THEN Noted([cyc[c] EXCEPT !.pc = "thrown"], "balanceThrew")
                ELSE IF aiEnabled /\ positions # <<>>
                  THEN [cyc[c] EXCEPT !.pc = "review", !.rest = positions]
                ELSE [cyc[c] EXCEPT !.pc = "gate"]
       IN CycleCommit(c, Same(t), isEvaluatingStopLoss)

AdviceSeqs == UNION {[1..n -> Symbols \X AdviceActions] : n \in 0..MaxAdvice}

SetMin(S) == CHOOSE x \in S : \A y \in S : x <= y

\* a review that acts on everything but a hold
ActsOnAllButHold(action) == action # "hold"

\* posAdvice.action === "sell"
ActsOn(action) == action = "sell"

\* the addresses step 3 passes to forceSell: for each advice with action
\* "sell", the first position of the snapshot with that tokenSymbol
RECURSIVE SellQueue(_, _, _)
SellQueue(adv, snap, O) ==
  IF adv = <<>> THEN <<>>
  ELSE LET h == Head(adv)
           m == {k \in 1..Len(snap) : SymbolOf(O[snap[k]].addr) = h[1]}
       IN IF ActsOn(h[2]) /\ m # {}
            THEN <<O[snap[SetMin(m)]].addr>> \o SellQueue(Tail(adv), snap, O)
            ELSE SellQueue(Tail(adv), snap, O)

\* a review whose failure ends the cycle
ReviewedFailClosed(t, adv, q) ==
  IF adv = <<>> THEN Noted([t EXCEPT !.pc = "thrown"], "noAdvice")
  ELSE IF q = <<>> THEN Noted([t EXCEPT !.pc = "gate"], "adviceIgnored")
  ELSE [CleanCyc(t) EXCEPT !.pc = "advise", !.sellQ = q]

\* the cycle after step 3, q being the sells the advice asks for
Reviewed(t, adv, q) ==
  IF q = <<>>
    THEN Noted([t EXCEPT !.pc = "gate"], IF adv = <<>> THEN "noAdvice" ELSE "adviceIgnored")
    ELSE [CleanCyc(t) EXCEPT !.pc = "advise", !.sellQ = q]

\* reviewPortfolio resolved with adv (the empty advice stands for null too)
CycleReviewOn(c, adv) ==
  /\ cyc[c].pc = "review"
  /\ CycleCommit(c, Same(Reviewed(cyc[c], adv, SellQueue(adv, cyc[c].rest, obj))),
                 isEvaluatingStopLoss)

CycleReview(c) == \E adv \in AdviceSeqs : CycleReviewOn(c, adv)

\* the AI SELL notification is sent; forceSell is called
CycleAdvise(c) ==
  /\ cyc[c].pc = "advise"
  /\ CycleCommit(c, Same(FsCall(cyc[c], Head(cyc[c].sellQ), positions, obj)),
                 isEvaluatingStopLoss)

CycleFsPrice(c) ==
  /\ cyc[c].pc = "fsPrice"
  /\ \E wf \in env.faults :
       CycleCommit(c, FsPrice(cyc[c], wf), isEvaluatingStopLoss)

CycleFsBalance(c) ==
  /\ cyc[c].pc = "fsBal"
  /\ \E out \in {"throw", "read"} :
       CycleCommit(c, FsBalance(cyc[c], out), isEvaluatingStopLoss)

CycleFsTx(c) ==
  /\ cyc[c].pc = "fsTx"
  /\ \E ok \in BOOLEAN, wf \in env.faults :
       CycleCommit(c, FsTx(cyc[c], ok, wf), isEvaluatingStopLoss)

\* getUsdcBalance resolved (or threw): the balance floor, then the scan
CycleUsdc(c) ==
  /\ cyc[c].pc = "usdc"
  /\ \E out \in {"throw", "read"} :
       LET t == IF out = "throw" THEN Noted([cyc[c] EXCEPT !.pc = "thrown"], "usdcThrew")
                ELSE IF usdc < MinUsdcBalance
                  THEN Noted([cyc[c] EXCEPT !.pc = "done"], "gateLowUsdc")
                ELSE [cyc[c] EXCEPT !.pc = "scan",
                                    !.addrs = getHeldTokenAddresses(positions, obj)]
       IN CycleCommit(c, Same(t), isEvaluatingStopLoss)

\* the approved verdicts: every verdict names a candidate, and the scanner
\* returns one candidate per lower-cased address, none of them held.  The
\* fallback of the analyst has one verdict per candidate; the verdicts parsed
\* from the reply of the model may repeat an address.
Approved(t, n) ==
  {s \in [1..n -> AddrLow \X env.allocs] :
     /\ \A i \in 1..n : Lower(s[i][1]) \notin t.addrs
     /\ (aiEnabled /\ env.dups)
          \/ \A i, j \in 1..n : i # j => Lower(s[i][1]) # Lower(s[j][1])}

\* a batch that is not cut to the free slots
Unsliced(t) == MaxPid - nextPid + 1

\* approvedBuys.slice(0, availableSlots)
Sliced(t) == IF t.slots < MaxPid - nextPid + 1 THEN t.slots ELSE MaxPid - nextPid + 1

\* toBuy: no more buys than position objects left
ToBuyOptions(t) == UNION {Approved(t, n) : n \in 0..Sliced(t)}

\* scanForCandidates and analyzeTokenCandidates resolved
CycleScan(c) ==
  /\ cyc[c].pc = "scan"
  /\ \E s \in ToBuyOptions(cyc[c]) :
       LET t == IF s = <<>> THEN [cyc[c] EXCEPT !.pc = "done"]
                ELSE [cyc[c] EXCEPT !.pc = "buyBal", !.toBuy = s, !.addrs = {}]
       IN CycleCommit(c, Same(t), isEvaluatingStopLoss)

\* verdict.suggestedAllocPercent ?? config.tradePercent
AllocPercent(suggested) == IF suggested = NoAlloc THEN TradePercent ELSE suggested

\* an amount taken from the balance the wallet had at the start
BuyAmountStale(currentUsdc, allocPercent) == (InitialUsdc * allocPercent + 50) \div 100

\* buyAmount of one buy: toFixed rounds to the nearest unit
BuyAmount(currentUsdc, allocPercent) == (currentUsdc * allocPercent + 50) \div 100

\* the balance re-read before a buy resolved (or threw); buyToken is called
CycleBuyBalance(c) ==
  /\ cyc[c].pc = "buyBal"
  /\ \E out \in {"throw", "read"} :
       LET t == IF out = "throw" THEN Noted([cyc[c] EXCEPT !.pc = "thrown"], "usdcThrew")
                ELSE IF usdc < MinUsdcBalance
                  THEN Noted([cyc[c] EXCEPT !.pc = "done"], "buysStopped")
                ELSE Noted([cyc[c] EXCEPT !.pc = "buyTx", !.bought = TRUE,
                                          !.amt = BuyAmount(usdc, AllocPercent(Head(cyc[c].toBuy)[2]))],
                           "buyStarted")
       IN CycleCommit(c, Same(t), isEvaluatingStopLoss)

\* addPosition: push and save, then the history entry
\* a position stored without its peak
addPositionNoPeak(t, pid, wf) ==
  LET a == Head(t.toBuy)[1]
      o == [addr |-> a, entry |-> EntryPrice, cur |-> EntryPrice, high |-> 0]
  IN Outcome(t,
             Append(positions, pid),
             [obj EXCEPT ![pid] = o],
             IF wf = "pos" THEN history ELSE addHistoryEntry(history, BuyEntry(o, pid)),
             IF dryRun THEN chain ELSE [chain EXCEPT ![Lower(a)] = TRUE],
             IF dryRun THEN usdc ELSE usdc - t.amt)

\* the Position the buy builds (entryPrice, currentPrice and highestPrice are
\* the price at the buy) handed to addPosition
addPosition(t, pid, wf) ==
  LET a == Head(t.toBuy)[1]
      o == [addr |-> a, entry |-> EntryPrice, cur |-> EntryPrice, high |-> EntryPrice]
  IN Outcome(t,
             Append(positions, pid),
             [obj EXCEPT ![pid] = o],
             IF wf = "pos" THEN history ELSE addHistoryEntry(history, BuyEntry(o, pid)),
             IF dryRun THEN chain ELSE [chain EXCEPT ![Lower(a)] = TRUE],
             IF dryRun THEN usdc ELSE usdc - t.amt)

\* buyToken resolved with its SwapResult
CycleBuyTx(c) ==
  /\ cyc[c].pc = "buyTx"
  /\ \E ok \in (IF nextPid <= MaxPid THEN BOOLEAN ELSE {FALSE}), wf \in env.faults :
       LET F == IF ok THEN addPosition(cyc[c], nextPid, wf) ELSE Same(cyc[c])
           t == [F.t EXCEPT !.pc = "sleep", !.toBuy = Tail(@), !.amt = 0]
       IN /\ Commit([F EXCEPT !.t = t], [cyc EXCEPT ![c] = t], mon, cmd,
                    {IF ok THEN "bought" ELSE "buyFailed"})
          /\ nextPid' = IF ok THEN nextPid + 1 ELSE nextPid
          /\ UNCHANGED <<timers, config, files, clock, isRunning, isEvaluatingStopLoss, tradingPaused>>

\* the delay between buys is over
CycleSleep(c) ==
  /\ cyc[c].pc = "sleep"
  /\ LET t == IF cyc[c].toBuy = <<>> THEN [cyc[c] EXCEPT !.pc = "done"]
              ELSE [cyc[c] EXCEPT !.pc = "buyBal"]
     IN CycleCommit(c, Same(t), isEvaluatingStopLoss)

\* the outer catch has sent notifyError
CycleFailed(c) ==
  /\ cyc[c].pc = "failed"
  /\ CycleCommit(c, Same([cyc[c] EXCEPT !.pc = "done"]), isEvaluatingStopLoss)

\* ---------------------------------------- stopLossMonitorTick (orchestrator.ts)

FreeMon == CHOOSE m \in MonIds : mon[m].pc = "idle" /\ \A e \in 1..(m - 1) : mon[e].pc # "idle"

\* the guard of stopLossMonitorTick
MonitorOverlap == isEvaluatingStopLoss

\* the finally block of stopLossMonitorTick runs when the body is left
MonCommit(m, F) ==
  LET ended == EvalEnded(F.t) /\ ~(F.t.pc = "ret" /\ F.t.sold # {})
      left == ended \/ F.t.pc = "done"
      t == IF left THEN IdleMon
           ELSE IF F.t.pc = "ret" THEN [IdleMon EXCEPT !.pc = "notify"]
           ELSE F.t
  IN /\ Commit(F, cyc, [mon EXCEPT ![m] = Quiet(t)], cmd, F.t.note)
     /\ isEvaluatingStopLoss' = IF left THEN FALSE ELSE isEvaluatingStopLoss
     /\ UNCHANGED <<timers, config, files, clock, isRunning, tradingPaused, nextPid>>

\* the 10 s interval fires: stopLossMonitorTick up to await getTokenPrices
MonitorFire ==
  /\ stopLossInterval
  /\ \E m \in MonIds : mon[m].pc = "idle"
  /\ IF MonitorOverlap \/ getOpenPositionCount(positions) = 0
       THEN /\ last' = IF MonitorOverlap THEN {"tickSkipped"} ELSE {}
            /\ UNCHANGED <<isEvaluatingStopLoss, mon>>
       ELSE /\ last' = {}
            /\ isEvaluatingStopLoss' = TRUE
            /\ mon' = [mon EXCEPT ![FreeMon] = EvalCall(mon[FreeMon], positions, obj)]
  /\ UNCHANGED <<timers, config, files, clock, isRunning, tradingPaused, positions, obj, nextPid,
                 history, chain, usdc, cyc, cmd>>

MonEvalPricesOn(m, pm) ==
  /\ mon[m].pc = "prices"
  /\ \E wf \in env.faults : MonCommit(m, EvalPrices(mon[m], pm, wf))

MonEvalPrices(m) == \E pm \in PriceMaps(mon[m].addrs) : MonEvalPricesOn(m, pm)

MonEvalBalanceOn(m, out) ==
  /\ mon[m].pc = "bal"
  /\ \E wf \in env.faults : MonCommit(m, EvalBalance(mon[m], out, wf))

MonEvalBalance(m) == \E out \in {"throw", "read"} : MonEvalBalanceOn(m, out)

MonEvalTxOn(m, ok) ==
  /\ mon[m].pc = "tx"
  /\ \E wf \in env.faults : MonCommit(m, EvalTx(mon[m], ok, wf))

MonEvalTx(m) == \E ok \in BOOLEAN : MonEvalTxOn(m, ok)

\* the stop-loss notifications of the tick are sent
MonNotify(m) ==
  /\ mon[m].pc = "notify"
  /\ MonCommit(m, Same([mon[m] EXCEPT !.pc = "done"]))

\* ------------------------------------------------------- commands (bot.ts)

FreeCmd == CHOOSE d \in CmdIds : cmd[d].pc = "idle" /\ \A e \in 1..(d - 1) : cmd[e].pc # "idle"

CmdCommit(d, F) ==
  /\ Commit(F, cyc, mon,
            [cmd EXCEPT ![d] = IF F.t.pc \in {"fsRet", "fsThrown"} THEN IdleCmd
                               ELSE Quiet(F.t)],
            F.t.note)
  /\ UNCHANGED <<timers, config, files, clock, isRunning, isEvaluatingStopLoss, tradingPaused, nextPid>>

\* /sell <address>: handleSell calls forceSell
handleSell(a) ==
  /\ \E d \in CmdIds : cmd[d].pc = "idle"
  /\ CmdCommit(FreeCmd, Same(FsCall(cmd[FreeCmd], a, positions, obj)))

CmdFsPrice(d) ==
  /\ cmd[d].pc = "fsPrice"
  /\ \E wf \in env.faults : CmdCommit(d, FsPrice(cmd[d], wf))

CmdFsBalance(d) ==
  /\ cmd[d].pc = "fsBal"
  /\ \E out \in {"throw", "read"} : CmdCommit(d, FsBalance(cmd[d], out))

CmdFsTx(d) ==
  /\ cmd[d].pc = "fsTx"
  /\ \E ok \in BOOLEAN, wf \in env.faults : CmdCommit(d, FsTx(cmd[d], ok, wf))

\* /pause and /resume
setPaused(paused) ==
  /\ tradingPaused' = paused
  /\ last' = {}
  /\ UNCHANGED <<timers, config, files, clock, isRunning, isEvaluatingStopLoss, positions, obj,
                 nextPid, history, chain, usdc, cyc, mon, cmd>>

\* ------------------------------------------------------ scheduler lifecycle

\* startStopLossMonitor
startStopLossMonitor == stopLossInterval' = TRUE

\* startOrchestrator: the monitor, one immediate cycle, the cron schedule
startOrchestrator ==
  /\ startStopLossMonitor
  /\ tradingCycleCall
  /\ cronTasks' = cronTasks + 1
  /\ cronTask' = TRUE
  /\ life' = "started"
  /\ UNCHANGED <<config, files, clock, isEvaluatingStopLoss, tradingPaused, positions, obj, nextPid,
                 history, chain, usdc, mon, cmd>>

\* stopStopLossMonitor
stopStopLossMonitor == stopLossInterval' = FALSE

\* a stop that leaves the cron task scheduled
stopOrchestratorMonitorOnly ==
  /\ stopStopLossMonitor
  /\ life' = "stopped"
  /\ last' = {"stopped"}
  /\ UNCHANGED <<cronTasks, cronTask, config, files, clock, isRunning, isEvaluatingStopLoss,
                 tradingPaused, positions, obj, nextPid, history, chain, usdc, cyc,
                 mon, cmd>>

\* stopOrchestrator: the interval is cleared and the task that the module
\* variable cronTask refers to is stopped
stopOrchestrator ==
  /\ stopStopLossMonitor
  /\ cronTasks' = IF cronTask THEN cronTasks - 1 ELSE cronTasks
  /\ cronTask' = FALSE
  /\ life' = "stopped"
  /\ last' = {"stopped"}
  /\ UNCHANGED <<config, files, clock, isRunning, isEvaluatingStopLoss, tradingPaused,
                 positions, obj, nextPid, history, chain, usdc, cyc, mon, cmd>>

\* main() starts the orchestrator once
Main == ~cronTask /\ cronTasks = 0 /\ startOrchestrator

\* ---------------------------------------------------------- specification

InitMemory ==
  /\ cronTasks = 0
  /\ cronTask = FALSE
  /\ stopLossInterval = FALSE
  /\ life = "new"
  /\ isRunning = FALSE
  /\ isEvaluatingStopLoss = FALSE
  /\ tradingPaused = FALSE
  /\ dryRun \in BOOLEAN
  /\ aiEnabled \in BOOLEAN
  /\ positions = <<>>
  /\ obj = [p \in Pids |-> NoObj]
  /\ nextPid = 1
  /\ history = <<>>
  /\ blacklist = {}
  /\ monitors = {}
  /\ chain = [x \in AddrLow |-> FALSE]
  /\ usdc = InitialUsdc
  /\ cyc = [c \in CycleIds |-> IdleCyc]
  /\ mon = [m \in MonIds |-> IdleMon]
  /\ cmd = [d \in CmdIds |-> IdleCmd]
  /\ now = StartTime
  /\ lastEthWarning = 0
  /\ cooldownUntil = 0
  /\ ethWarnings = <<>>
  /\ last = {}

\* a first start: the data directory is empty
InitProgram == InitMemory /\ disk = NoFiles

\* a healthy disk, prices at or below entry, the default allocation
CalmEnv == [faults |-> {"none"}, prices |-> {8, 10}, allocs |-> {NoAlloc},
            sells |-> {"A", "b"}, maxPositions |-> MaxPositions, dups |-> FALSE,
            eth |-> {"ok"}, stopLossPercent |-> StopLossPercent,
            takeProfitPercent |-> TakeProfitPercent]

Init == InitProgram /\ env = CalmEnv

CycleNext(c) ==
  \/ CycleEth(c)
  \/ CycleEvalPrices(c)
  \/ CycleEvalBalance(c)
  \/ CycleEvalTx(c)
  \/ CyclePost(c)
  \/ CycleReview(c)
  \/ CycleAdvise(c)
  \/ CycleFsPrice(c)
  \/ CycleFsBalance(c)
  \/ CycleFsTx(c)
  \/ CycleUsdc(c)
  \/ CycleScan(c)
  \/ CycleBuyBalance(c)
  \/ CycleBuyTx(c)
  \/ CycleSleep(c)
  \/ CycleFailed(c)

MonNext(m) ==
  \/ MonEvalPrices(m)
  \/ MonEvalBalance(m)
  \/ MonEvalTx(m)
  \/ MonNotify(m)

CmdNext(d) ==
  \/ CmdFsPrice(d)
  \/ CmdFsBalance(d)
  \/ CmdFsTx(d)

\* the schedulers and the pause switch
Next ==
  \/ Main
  \/ CronFire
  \/ MonitorFire
  \/ \E c \in CycleIds : CycleNext(c)
  \/ \E m \in MonIds : MonNext(m)
  \/ \E b \in BOOLEAN : setPaused(b)

Spec == Init /\ [][Next]_vars

\* The bot after a restart with two positions loaded from positions.json
\* and the first cycle over: the monitor ticks and the operator sends /sell.
HeldObj(a) == [addr |-> a, entry |-> EntryPrice, cur |-> EntryPrice, high |-> EntryPrice]

Holding ==
  /\ cronTasks = 1
  /\ cronTask = TRUE
  /\ stopLossInterval = TRUE
  /\ life = "started"
  /\ isRunning = FALSE
  /\ isEvaluatingStopLoss = FALSE
  /\ tradingPaused = FALSE
  /\ aiEnabled = FALSE
  /\ positions = <<1, 2>>
  /\ obj = [p \in Pids |-> IF p = 1 THEN HeldObj("A") ELSE IF p = 2 THEN HeldObj("b") ELSE NoObj]
  /\ nextPid = 3
  /\ history = <<BuyEntry(HeldObj("A"), 1), BuyEntry(HeldObj("b"), 2)>>
  /\ blacklist = {}
  /\ monitors = {}
  /\ disk = [pos |-> File(<<HeldObj("A"), HeldObj("b")>>), bl |-> Missing({}),
             hist |-> File(<<BuyEntry(HeldObj("A"), 1), BuyEntry(HeldObj("b"), 2)>>)]
  /\ chain = [x \in AddrLow |-> TRUE]
  /\ usdc = InitialUsdc
  /\ cyc = [c \in CycleIds |-> IdleCyc]
  /\ mon = [m \in MonIds |-> IdleMon]
  /\ cmd = [d \in CmdIds |-> IdleCmd]
  /\ now = StartTime
  /\ lastEthWarning = 0
  /\ cooldownUntil = 0
  /\ ethWarnings = <<>>
  /\ last = {}

InitHolding == Holding /\ dryRun \in BOOLEAN /\ env = CalmEnv

SellNext ==
  \/ MonitorFire
  \/ \E m \in MonIds : MonNext(m)
  \/ \E a \in env.sells : handleSell(a)
  \/ \E d \in CmdIds : CmdNext(d)

SpecSell == InitHolding /\ [][SellNext]_vars

\* Live trading with every token quoted at 8, the stop of an entry at 10.
LowEnv == [CalmEnv EXCEPT !.prices = {8}]

InitRetry == Holding /\ dryRun = FALSE /\ env = LowEnv

\* getTokenPrices came back with a price for every address asked
MonPricesKnown(m) ==
  \E pm \in PriceMaps(mon[m].addrs) :
    (\A x \in mon[m].addrs : pm[x] # NoPrice) /\ MonEvalPricesOn(m, pm)

\* The interval keeps firing and every await of a tick resolves; prices keep
\* coming back, balance reads and swaps succeed again and again.
FairTicks ==
  /\ WF_vars(MonitorFire)
  /\ \A m \in MonIds :
       /\ SF_vars(MonPricesKnown(m))
       /\ SF_vars(MonEvalBalanceOn(m, "read"))
       /\ SF_vars(MonEvalTxOn(m, TRUE))
       /\ WF_vars(MonNotify(m))

SpecRetry == InitRetry /\ [][SellNext]_vars /\ FairTicks

\* Live trading without the analyst: the steps of a cycle that has no
\* portfolio review.
PlainCycleNext(c) ==
  \/ CycleEth(c)
  \/ CycleEvalPrices(c)
  \/ CycleEvalBalance(c)
  \/ CycleEvalTx(c)
  \/ CyclePost(c)
  \/ CycleUsdc(c)
  \/ CycleScan(c)
  \/ CycleBuyBalance(c)
  \/ CycleBuyTx(c)
  \/ CycleSleep(c)
  \/ CycleFailed(c)

InitStop == InitProgram /\ ~dryRun /\ ~aiEnabled /\ env = LowEnv

StopNext ==
  \/ Main
  \/ stopOrchestrator
  \/ CronFire
  \/ MonitorFire
  \/ \E c \in CycleIds : PlainCycleNext(c)
  \/ \E m \in MonIds : MonNext(m)

\* The orchestrator is stopped at any moment and may be started again
\* afterwards.
SpecStop == InitStop /\ [][StopNext]_vars

\* startOrchestrator called whatever the state of the timers
StartAnyTime == cronTasks < MaxCronTasks /\ startOrchestrator

RestartNext ==
  \/ StartAnyTime
  \/ stopOrchestrator
  \/ CronFire
  \/ MonitorFire
  \/ \E c \in CycleIds : PlainCycleNext(c)
  \/ \E m \in MonIds : MonNext(m)

SpecRestart == InitStop /\ [][RestartNext]_vars

\* Date.now() advances
TimePasses ==
  /\ now < MaxTime
  /\ now' = now + 1
  /\ last' = {}
  /\ UNCHANGED <<timers, config, files, lastEthWarning, cooldownUntil, ethWarnings, isRunning,
                 isEvaluatingStopLoss, tradingPaused, positions, obj, nextPid,
                 history, chain, usdc, cyc, mon, cmd>>

\* The wallet's ETH is at times below the threshold while the clock runs;
\* the scanner finds no candidate and no position is open.
EthEnv == [CalmEnv EXCEPT !.allocs = {}, !.eth = EthOutcomes]

InitEth == InitProgram /\ ~dryRun /\ ~aiEnabled /\ env = EthEnv

EthNext ==
  \/ Main
  \/ CronFire
  \/ TimePasses
  \/ \E c \in CycleIds : CycleEth(c) \/ CycleUsdc(c) \/ CycleScan(c) \/ CycleFailed(c)

SpecEth == InitEth /\ [][EthNext]_vars

\* Live trading with the analyst on: a verdict may carry its own allocation.
AllocEnv == [CalmEnv EXCEPT !.allocs = {NoAlloc, 20}]

InitAlloc == InitProgram /\ ~dryRun /\ aiEnabled /\ env = AllocEnv

TradeNext ==
  \/ Main
  \/ CronFire
  \/ MonitorFire
  \/ \E c \in CycleIds : CycleNext(c)
  \/ \E m \in MonIds : MonNext(m)

SpecAlloc == InitAlloc /\ [][TradeNext]_vars

\* The same bot with room for fewer positions than the scanner has candidates.
InitCap == InitProgram /\ env = [CalmEnv EXCEPT !.maxPositions = SmallCap]

SpecCap == InitCap /\ [][Next]_vars

\* The analyst is on and its reply may hold several verdicts for one address.
InitDup == InitProgram /\ aiEnabled /\ env = [CalmEnv EXCEPT !.dups = TRUE]

SpecDup == InitDup /\ [][Next]_vars

\* Two positions entered at 10 while their tokens are quoted between 8 and 25.
RisingEnv == [CalmEnv EXCEPT !.prices = {8, 10, 15, 20, 25}]

InitPrice == Holding /\ dryRun \in BOOLEAN /\ env = RisingEnv

TickNext ==
  \/ MonitorFire
  \/ \E m \in MonIds : MonNext(m)

SpecPrice == InitPrice /\ [][TickNext]_vars

\* A first start with room for one position, bought at 10 and then quoted
\* between 8 and 15.
InitRise ==
  /\ InitProgram /\ ~dryRun /\ ~aiEnabled
  /\ env = [CalmEnv EXCEPT !.prices = {8, 10, 15}, !.maxPositions = SmallCap]

RiseNext ==
  \/ Main
  \/ CronFire
  \/ MonitorFire
  \/ \E c \in CycleIds : PlainCycleNext(c)
  \/ \E m \in MonIds : MonNext(m)

SpecRise == InitRise /\ [][RiseNext]_vars

\* The started bot holds token A and has a slot free; the stop-loss monitor
\* is scheduled or not, and the wallet holds balance.
HoldingA(interval, balance) ==
  /\ cronTasks = 1
  /\ cronTask = TRUE
  /\ stopLossInterval = interval
  /\ life = "started"
  /\ isRunning = FALSE
  /\ isEvaluatingStopLoss = FALSE
  /\ tradingPaused = FALSE
  /\ dryRun = FALSE
  /\ positions = <<1>>
  /\ obj = [p \in Pids |-> IF p = 1 THEN HeldObj("A") ELSE NoObj]
  /\ nextPid = 2
  /\ history = <<BuyEntry(HeldObj("A"), 1)>>
  /\ blacklist = {}
  /\ monitors = {}
  /\ disk = [pos |-> File(<<HeldObj("A")>>), bl |-> Missing({}),
             hist |-> File(<<BuyEntry(HeldObj("A"), 1)>>)]
  /\ chain = [x \in AddrLow |-> x = "a"]
  /\ usdc = balance
  /\ cyc = [c \in CycleIds |-> IdleCyc]
  /\ mon = [m \in MonIds |-> IdleMon]
  /\ cmd = [d \in CmdIds |-> IdleCmd]
  /\ now = StartTime
  /\ lastEthWarning = 0
  /\ cooldownUntil = 0
  /\ ethWarnings = <<>>
  /\ last = {}
  /\ env = CalmEnv

\* The cycles alone, with the analyst on or off and the scanner offering b.
InitAdvice == HoldingA(FALSE, InitialUsdc) /\ aiEnabled \in BOOLEAN

AdviceNext ==
  \/ CronFire
  \/ \E c \in CycleIds : CycleNext(c)

SpecAdvice == InitAdvice /\ [][AdviceNext]_vars

\* The cycles beside the stop-loss monitor, with the analyst on and the
\* wallet below minUsdcBalance: a cycle ends at the balance check of step 5.
InitReview == HoldingA(TRUE, MinUsdcBalance - 1) /\ aiEnabled = TRUE

ReviewCycleNext(c) ==
  \/ CycleEth(c)
  \/ CycleEvalPrices(c)
  \/ CycleEvalBalance(c)
  \/ CycleEvalTx(c)
  \/ CyclePost(c)
  \/ CycleReview(c)
  \/ CycleAdvise(c)
  \/ CycleFsPrice(c)
  \/ CycleFsBalance(c)
  \/ CycleFsTx(c)
  \/ CycleUsdc(c)
  \/ CycleFailed(c)

ReviewNext ==
  \/ CronFire
  \/ MonitorFire
  \/ \E c \in CycleIds : ReviewCycleNext(c)
  \/ \E m \in MonIds : MonNext(m)

SpecReview == InitReview /\ [][ReviewNext]_vars

\* ------------------------------------------------ store calls (manager.ts)
\* The exported functions of the store are synchronous: a call is one step.

orchestrator == <<isRunning, isEvaluatingStopLoss, tradingPaused, chain, usdc, cyc, mon, cmd>>

\* initPositionManager: main() calls it once, before anything else
initPositionManager ==
  /\ life = "new"
  /\ life' = "loaded"
  /\ LET loaded == loadJson(disk.pos, <<>>)
     IN /\ positions' = [k \in 1..Len(loaded) |-> k]
        /\ obj' = [p \in Pids |-> IF p <= Len(loaded) THEN loaded[p] ELSE NoObj]
        /\ nextPid' = Len(loaded) + 1
  /\ blacklist' = {Lower(x) : x \in loadJson(disk.bl, {})}
  /\ history' = loadJson(disk.hist, <<>>)
  /\ last' = {"loaded"}
  /\ UNCHANGED <<cronTasks, cronTask, stopLossInterval, config, clock, disk, monitors, orchestrator>>

\* addPosition(pos) for a position of token a
AddPositionCall(a) ==
  /\ life = "loaded"
  /\ nextPid <= MaxPid
  /\ \E out1, out2 \in SaveOutcomes :
       LET o == HeldObj(a)
           P2 == Append(positions, nextPid)
           O2 == [obj EXCEPT ![nextPid] = o]
           H2 == addHistoryEntry(history, BuyEntry(o, nextPid))
           pushed == out1 = "written"
       IN /\ positions' = IF pushed THEN P2 ELSE KeptOnThrow(positions, P2)
          /\ obj' = GC(O2, positions', cyc, mon, cmd)
          /\ nextPid' = nextPid + 1
          /\ history' = IF pushed THEN H2 ELSE history
          /\ disk' = IF pushed
                       THEN [disk EXCEPT !.pos = File(PosImage(P2, O2)),
                                         !.hist = saveJson(@, H2, out2)]
                       ELSE [disk EXCEPT !.pos = saveJson(@, PosImage(P2, O2), out1)]
          /\ last' = {"addPosition"}
                       \cup (IF pushed /\ out2 = "written" THEN {} ELSE {"threw"})
                       \cup (IF pushed THEN {} ELSE {"posWriteThrew"})
  /\ UNCHANGED <<timers, config, clock, blacklist, monitors, orchestrator>>

\* removePosition(a)
RemovePositionCall(a) ==
  /\ life = "loaded"
  /\ \E out \in SaveOutcomes :
       LET P2 == removePosition(positions, obj, a)
           found == FindIndex(positions, obj, a) # 0
           saved == out = "written"
       IN /\ positions' = IF saved THEN P2 ELSE KeptOnThrow(positions, P2)
          /\ obj' = GC(obj, positions', cyc, mon, cmd)
          /\ disk' = IF found
                       THEN [disk EXCEPT !.pos = saveJson(@, PosImage(P2, obj), out)]
                       ELSE disk
          /\ last' = {"removePosition"}
                       \cup (IF found /\ ~saved THEN {"threw", "posWriteThrew"} ELSE {})
  /\ UNCHANGED <<timers, config, clock, nextPid, history, blacklist, monitors, orchestrator>>

\* the sells the log holds
SellsLogged(H) == Cardinality({k \in 1..Len(H) : H[k].type = "sell"})

\* the history entry and the removal that follow a successful sell of the
\* open position of token a
SellRecordedCall(a) ==
  /\ life = "loaded"
  /\ SellsLogged(history) < MaxSellCalls
  /\ getPosition(positions, obj, a) # 0
  /\ \E out1, out2 \in SaveOutcomes :
       LET pid == getPosition(positions, obj, a)
           H2 == addHistoryEntry(history, SellEntry(obj[pid], pid, "manual"))
           P2 == removePosition(positions, obj, a)
           logged == out1 = "written"
           saved == out2 = "written"
       IN /\ history' = H2
          /\ positions' = IF ~logged THEN positions
                           ELSE IF saved THEN P2 ELSE KeptOnThrow(positions, P2)
          /\ obj' = GC(obj, positions', cyc, mon, cmd)
          /\ disk' = IF logged
                       THEN [disk EXCEPT !.hist = File(H2),
                                         !.pos = saveJson(@, PosImage(P2, obj), out2)]
                       ELSE [disk EXCEPT !.hist = saveJson(@, H2, out1)]
          /\ last' = {"sellRecorded"}
                       \cup (IF logged /\ saved THEN {} ELSE {"threw"})
                       \cup (IF logged /\ ~saved THEN {"posWriteThrew"} ELSE {})
  /\ UNCHANGED <<timers, config, clock, nextPid, blacklist, monitors, orchestrator>>

BlacklistKeyAsGiven(a) == a

\* the member a blacklist call works on: tokenAddress.toLowerCase()
BlacklistKey(a) == Lower(a)

\* the scanner's test of a pair's base token against the blacklist
IsBlacklisted(bl, x) == Lower(x) \in bl

\* addToBlacklist(a)
addToBlacklist(a) ==
  /\ life = "loaded"
  /\ \E out \in SaveOutcomes :
       /\ blacklist' = blacklist \cup {BlacklistKey(a)}
       /\ disk' = [disk EXCEPT !.bl = saveJson(@, blacklist', out)]
       /\ last' = {"addToBlacklist"} \cup (IF out = "written" THEN {} ELSE {"threw"})
  /\ UNCHANGED <<timers, config, clock, positions, obj, nextPid, history, monitors, orchestrator>>

\* removeFromBlacklist(a)
removeFromBlacklist(a) ==
  /\ life = "loaded"
  /\ \E out \in SaveOutcomes :
       /\ blacklist' = blacklist \ {BlacklistKey(a)}
       /\ disk' = [disk EXCEPT !.bl = saveJson(@, blacklist', out)]
       /\ last' = {"removeFromBlacklist"} \cup (IF out = "written" THEN {} ELSE {"threw"})
  /\ UNCHANGED <<timers, config, clock, positions, obj, nextPid, history, monitors, orchestrator>>

\* the addresses as a caller may write them
Addrs == {"A", "a", "b"}

\* a history file that holds as many entries as the store keeps
FullHistory == [k \in 1..HistoryCap |-> [type |-> "buy", addr |-> "b", pid |-> k, reason |-> ""]]

\* what the data directory may hold when the process starts
StartFiles ==
  [pos : {Missing(<<>>), Corrupt(<<HeldObj("A")>>), File(<<>>), File(<<HeldObj("A")>>)},
   bl : {Missing({}), Corrupt({"A"}), File({"A"})},
   hist : {Missing(<<>>), Corrupt(FullHistory), File(FullHistory)}]

\* the store calls on the positions and the log, from any data directory
\* without a blacklist file
InitStore ==
  /\ InitMemory /\ ~dryRun /\ ~aiEnabled /\ env = CalmEnv
  /\ disk \in StartFiles /\ disk.bl.state = "missing"

StoreNext ==
  \/ initPositionManager
  \/ AddPositionCall("b")
  \/ \E a \in {"a", "b"} : RemovePositionCall(a)
  \/ SellRecordedCall("a")

SpecStore == InitStore /\ [][StoreNext]_vars

\* the blacklist calls, from any data directory
InitBlacklist ==
  /\ InitMemory /\ ~dryRun /\ ~aiEnabled /\ env = CalmEnv
  /\ disk \in StartFiles

BlacklistNext ==
  \/ initPositionManager
  \/ \E a \in Addrs : addToBlacklist(a)
  \/ \E a \in Addrs : removeFromBlacklist(a)
  \/ AddPositionCall("b")
  \/ RemovePositionCall("a")

SpecBlacklist == InitBlacklist /\ [][BlacklistNext]_vars

\* ------------------------------------------------ chat handlers (bot.ts)
\* A handler runs from the message to its last reply; its awaits separate
\* replies and the token lookup, and it touches the monitors in addMonitor only.

\* parseFloat of the text given for a number: NaN or a value
Parsed(S) == {[nan |-> TRUE, val |-> 0]} \cup {[nan |-> FALSE, val |-> v] : v \in S}

\* getTokenInfo: null, or the token with its price (0 when the feed has none)
NoInfo == [found |-> FALSE, address |-> "", priceUsd |-> 0]
Lookups == {NoInfo} \cup [found : {TRUE}, address : AddrLow, priceUsd : {0, 10, 20}]

\* a check that lets a stop at the current price through
StopLossRejectedAbove(sl, price) == sl.nan \/ sl.val <= 0 \/ sl.val > price

\* isNaN(stopLoss) || stopLoss <= 0, and stopLoss >= info.priceUsd
StopLossRejected(sl, price) == sl.nan \/ sl.val <= 0 \/ sl.val >= price

\* addMonitor: one monitor per address, a new one replaces the old one
addMonitor(M, m) == {x \in M : Lower(x.address) # Lower(m.address)} \cup {m}

Monitor(type, info, stop) ==
  [type |-> type, address |-> info.address, stopLossPrice |-> stop,
   entryPrice |-> info.priceUsd]

Handled(M, what) ==
  /\ monitors' = M
  /\ last' = what
  /\ UNCHANGED <<timers, config, clock, positions, obj, nextPid, history, blacklist, disk,
                 orchestrator>>

\* bot.on("message:text"): "<contract_address> <stop_loss_price>"
TextMessage ==
  \E matched \in BOOLEAN, sl \in Parsed({0, 5, 10, 20}), info \in Lookups :
    IF ~matched THEN Handled(monitors, {"text", "badFormat"})
    ELSE IF sl.nan \/ sl.val <= 0 THEN Handled(monitors, {"text", "badStop"})
    ELSE IF ~info.found THEN Handled(monitors, {"text", "noToken"})
    ELSE IF info.priceUsd <= 0 THEN Handled(monitors, {"text", "noPrice"})
    ELSE IF StopLossRejected(sl, info.priceUsd) THEN Handled(monitors, {"text", "stopAbove"})
    ELSE Handled(addMonitor(monitors, Monitor("", info, sl.val)), {"text", "added"})

\* /simple <contract-address> <stop-loss> <notify-percent>
handleSimple ==
  \E wellFormed \in BOOLEAN, sl \in Parsed({-5, 0, 5, 10, 20}), notify \in Parsed({0, 5}),
     info \in Lookups :
    IF ~wellFormed THEN Handled(monitors, {"simple", "badFormat"})
    ELSE IF sl.nan \/ sl.val <= 0 THEN Handled(monitors, {"simple", "badStop"})
    ELSE IF notify.nan \/ notify.val <= 0 THEN Handled(monitors, {"simple", "badNotify"})
    ELSE IF ~info.found THEN Handled(monitors, {"simple", "noToken"})
    ELSE IF info.priceUsd <= 0 THEN Handled(monitors, {"simple", "noPrice"})
    ELSE IF StopLossRejected(sl, info.priceUsd) THEN Handled(monitors, {"simple", "stopAbove"})
    ELSE Handled(addMonitor(monitors, Monitor("simple", info, sl.val)), {"simple", "added"})

\* /buyback: a monitor without stop-loss (stopLossPrice 0)
NotifyStep == 25
DropStep == 10
PerBuy == 100

\* the monitor handleBuyback stores: the wallet balance it reads is the budget
BuybackMonitor(info, balance) ==
  [type |-> "buyback", address |-> info.address, stopLossPrice |-> 0,
   entryPrice |-> info.priceUsd, lastNotifiedMilestone |-> 0, notifyPercent |-> NotifyStep,
   usdcPerBuyback |-> PerBuy, buybackPercent |-> DropStep, totalUsdcBudget |-> balance,
   usdcSpent |-> 0, lastBuybackLevel |-> 0]

handleBuybackOn(wellFormed, info, balance) ==
  IF ~wellFormed THEN Handled(monitors, {"buyback", "badFormat"})
  ELSE IF ~info.found THEN Handled(monitors, {"buyback", "noToken"})
  ELSE IF info.priceUsd <= 0 THEN Handled(monitors, {"buyback", "noPrice"})
  ELSE IF balance = "throw" THEN Handled(monitors, {"buyback", "threw"})
  ELSE Handled(addMonitor(monitors, BuybackMonitor(info, usdc)), {"buyback", "added"})

handleBuyback ==
  \E wellFormed \in BOOLEAN, info \in Lookups, balance \in {"throw", "read"} :
    handleBuybackOn(wellFormed, info, balance)

InitBot == InitProgram /\ ~dryRun /\ ~aiEnabled /\ env = CalmEnv

BotNext == TextMessage \/ handleSimple \/ handleBuyback

SpecBot == InitBot /\ [][BotNext]_vars

\* ---------------------------------------------------------------------------
\* The tick of a buyback monitor. The engine that evaluates monitors is not
\* part of src/ (bot.ts creates the monitors and formats the notifications);
\* the decision functions follow section 4.2 of the specification. Prices are
\* in cents, so every percentage is an exact integer quotient.
\* ---------------------------------------------------------------------------

WatchEntry == 100

\* wallet balances at the start
Budgets == {0, 50, 250}
WatchPrices == {NoPrice, 45, 55, 70, 80, 88, 90, 95, 100, 125, 130, 132, 180}
WatchInfo == [found |-> TRUE, address |-> "a", priceUsd |-> WatchEntry]

\* level = floor(gain / stepPercent) * stepPercent, gain = (current - entry) / entry * 100
MilestoneLevel(entry, current, step) == (((current - entry) * 100) \div (entry * step)) * step

\* a level fires again when the price is still on it
nextMilestoneRepeating(entry, current, lastNotified, step) ==
  LET level == MilestoneLevel(entry, current, step)
  IN  [fires |-> level > 0 /\ level >= lastNotified, level |-> level]

\* nextMilestone: fires only if level > 0 and level > lastNotified
nextMilestone(entry, current, lastNotified, step) ==
  LET level == MilestoneLevel(entry, current, step)
  IN  [fires |-> level > 0 /\ level > lastNotified, level |-> level]

\* level = floor(dropPercent / buybackPercent), dropPercent = (entry - current) / entry * 100
DropLevel(entry, current, step) == ((entry - current) * 100) \div (entry * step)

\* the level the price is on triggers whenever it differs from the last one
nextBuybackLevelAnyChange(entry, current, lastLevel, step) ==
  LET level == DropLevel(entry, current, step)
  IN  [fires |-> current < entry /\ level # lastLevel, level |-> level]

\* nextBuybackLevel: only below entry, fires only if level > lastLevel
nextBuybackLevel(entry, current, lastLevel, step) ==
  LET level == DropLevel(entry, current, step)
  IN  [fires |-> current < entry /\ level > lastLevel, level |-> level]

Min(a, b) == IF a < b THEN a ELSE b

\* every buy spends the full amount
SpendFull(m) == m.usdcPerBuyback

\* spend sizing: min(usdcPerBuy, totalBudget - spent)
SpendSize(m) == Min(m.usdcPerBuyback, m.totalUsdcBudget - m.usdcSpent)

\* the milestone part of a tick
MilestoneStep(m, p) ==
  LET f == nextMilestone(m.entryPrice, p, m.lastNotifiedMilestone, m.notifyPercent)
  IN  IF f.fires THEN [m EXCEPT !.lastNotifiedMilestone = f.level] ELSE m

\* the buyback part of a tick: budget check and sizing right before the buy;
\* the level is stored when it triggers, the amount when the buy succeeds
BuybackStep(m, p, buy) ==
  LET f == nextBuybackLevel(m.entryPrice, p, m.lastBuybackLevel, m.buybackPercent)
  IN  IF ~f.fires \/ m.usdcSpent >= m.totalUsdcBudget THEN m
      ELSE [m EXCEPT !.lastBuybackLevel = f.level,
                     !.usdcSpent = IF buy = "ok" THEN @ + SpendSize(m) ELSE @]

WatchNotes(m, p) ==
  LET f == nextMilestone(m.entryPrice, p, m.lastNotifiedMilestone, m.notifyPercent)
      g == nextBuybackLevel(m.entryPrice, p, m.lastBuybackLevel, m.buybackPercent)
  IN  (IF f.fires THEN {"milestone"} ELSE {})
      \cup (IF ~g.fires THEN {}
            ELSE IF m.usdcSpent >= m.totalUsdcBudget THEN {"exhausted"} ELSE {"buyback"})

WatchDone(M, spent, what) ==
  /\ monitors' = M
  /\ usdc' = usdc - spent
  /\ last' = what
  /\ UNCHANGED <<timers, config, clock, positions, obj, nextPid, history, blacklist, disk,
                 isRunning, isEvaluatingStopLoss, tradingPaused, chain, cyc, mon, cmd>>

\* one tick over the monitors: a missing price skips the monitor
WatchTickOn(p, buy) ==
  /\ monitors # {}
  /\ IF PriceMissing(p) THEN WatchDone(monitors, 0, {"watch", "skipped"})
     ELSE LET m == CHOOSE x \in monitors : TRUE
              n == BuybackStep(MilestoneStep(m, p), p, buy)
          IN  WatchDone({n}, n.usdcSpent - m.usdcSpent, WatchNotes(m, p) \cup {"watch", buy})

WatchTick == \E p \in WatchPrices, buy \in {"ok", "failed"} : WatchTickOn(p, buy)

InitWatch ==
  /\ cronTasks = 0
  /\ cronTask = FALSE
  /\ stopLossInterval = FALSE
  /\ life = "new"
  /\ isRunning = FALSE
  /\ isEvaluatingStopLoss = FALSE
  /\ tradingPaused = FALSE
  /\ dryRun = FALSE
  /\ aiEnabled = FALSE
  /\ env = CalmEnv
  /\ positions = <<>>
  /\ obj = [p \in Pids |-> NoObj]
  /\ nextPid = 1
  /\ history = <<>>
  /\ blacklist = {}
  /\ monitors = {}
  /\ disk = NoFiles
  /\ chain = [x \in AddrLow |-> FALSE]
  /\ usdc \in Budgets
  /\ cyc = [c \in CycleIds |-> IdleCyc]
  /\ mon = [m \in MonIds |-> IdleMon]
  /\ cmd = [d \in CmdIds |-> IdleCmd]
  /\ now = StartTime
  /\ lastEthWarning = 0
  /\ cooldownUntil = 0
  /\ ethWarnings = <<>>
  /\ last = {}

WatchNext == handleBuybackOn(TRUE, WatchInfo, "read") \/ WatchTick

SpecWatch == InitWatch /\ [][WatchNext]_vars

\* ---------------------------------------------------------------------------
\* The focused trading loop: one token, a flat stop-loss and take-profit, and
\* a cooldown before the token is entered again. index.ts starts the loop and
\* config/index.ts holds its settings; the loop itself is not part of src/
\* and follows sections 4.2 and 4.4 of the specification.
\* ---------------------------------------------------------------------------

\* reentryCooldownSec in units of the clock
ReentryCooldown == 2

\* the stop-loss threshold is looked at first
checkFlatExitStopFirst(entry, sl, tp, current) ==
  IF current * 100 <= entry * (100 - sl) THEN "stop-loss"
  ELSE IF current * 100 >= entry * (100 + tp) THEN "take-profit"
  ELSE "hold"

\* checkFlatExit: take-profit is evaluated first, then stop-loss
checkFlatExit(entry, sl, tp, current) ==
  IF current * 100 >= entry * (100 + tp) THEN "take-profit"
  ELSE IF current * 100 <= entry * (100 - sl) THEN "stop-loss"
  ELSE "hold"

\* a cooldown that is over as soon as it starts
CooldownEndNow(t, c) == t

\* the timestamp set at an exit: now + cooldownSeconds
CooldownEnd(t, c) == t + c

FocusPrices == {NoPrice, 8, 9, 10, 11, 12}

\* TAKE_PROFIT_PERCENT is parsed without a range check
TakeProfits == {TakeProfitPercent, -10}

FocusDone(P, O, H, held, U, pid, until, what) ==
  /\ positions' = P
  /\ obj' = GC(O, P, cyc, mon, cmd)
  /\ history' = H
  /\ chain' = [chain EXCEPT !["a"] = held]
  /\ usdc' = U
  /\ nextPid' = pid
  /\ cooldownUntil' = until
  /\ last' = what \cup {"focus"}
  /\ UNCHANGED <<timers, config, files, now, lastEthWarning, ethWarnings, isRunning,
                 isEvaluatingStopLoss, tradingPaused, cyc, mon, cmd>>

FocusSame(what) ==
  FocusDone(positions, obj, history, chain["a"], usdc, nextPid, cooldownUntil, what)

\* the held position is priced and checkFlatExit decides; an exit that is
\* sold removes the position and starts the cooldown
FocusExitOn(p, ok) ==
  LET pid == positions[1]
      o == UpdatePrice(obj[pid], p)
      v == checkFlatExit(o.entry, env.stopLossPercent, env.takeProfitPercent, p)
      O2 == [obj EXCEPT ![pid] = o]
  IN  IF PriceMissing(p) THEN FocusSame({"skipped"})
      ELSE IF v = "hold" \/ ~ok
        THEN FocusDone(positions, O2, history, chain["a"], usdc, nextPid, cooldownUntil,
                       {"priced", v} \cup (IF v = "hold" THEN {} ELSE {"sellFailed"}))
      ELSE FocusDone(<<>>, O2, addHistoryEntry(history, SellEntry(o, pid, v)), FALSE, usdc,
                     nextPid, CooldownEnd(now, ReentryCooldown), {"priced", v, "exited"})

\* entry gating in order: pause flag, re-entry cooldown, minimum balance
FocusEntryOn(p, ok) ==
  IF isTradingPaused THEN FocusSame({"attempt", "refused", "paused"})
  ELSE IF now < cooldownUntil THEN FocusSame({"attempt", "refused", "cooldown"})
  ELSE IF usdc < MinUsdcBalance THEN FocusSame({"attempt", "refused", "lowBalance"})
  ELSE IF PriceMissing(p) \/ ~ok \/ nextPid > MaxPid THEN FocusSame({"attempt", "buyFailed"})
  ELSE LET o == [addr |-> "a", entry |-> p, cur |-> p, high |-> p]
       IN  FocusDone(<<nextPid>>, [obj EXCEPT ![nextPid] = o],
                     addHistoryEntry(history, BuyEntry(o, nextPid)), TRUE,
                     usdc - BuyAmount(usdc, TradePercent), nextPid + 1, cooldownUntil,
                     {"attempt", "entered"})

\* one tick of the loop
FocusTickOn(p, ok) ==
  IF getOpenPositionCount(positions) > 0 THEN FocusExitOn(p, ok) ELSE FocusEntryOn(p, ok)

FocusTick == \E p \in FocusPrices, ok \in BOOLEAN : FocusTickOn(p, ok)

InitFocus ==
  /\ InitProgram /\ ~dryRun /\ ~aiEnabled
  /\ \E tp \in TakeProfits : env = [CalmEnv EXCEPT !.takeProfitPercent = tp]

FocusNext ==
  \/ FocusTick
  \/ TimePasses
  \/ \E b \in BOOLEAN : setPaused(b)

SpecFocus == InitFocus /\ [][FocusNext]_vars


\* ------------------------------------------------------------------ claims

EvalPcs == {"prices", "bal", "tx"}

CycleRunning(c) == cyc[c].pc # "idle"

\* the step changes nothing but the ghost
NoWork ==
  UNCHANGED <<cronTasks, cronTask, stopLossInterval, life, isRunning, isEvaluatingStopLoss,
              tradingPaused, dryRun, aiEnabled, positions, obj, nextPid, history,
              blacklist, disk, monitors, chain, usdc, cyc, mon, cmd, env, now,
              lastEthWarning, cooldownUntil, ethWarnings>>

\* C1: at most one tradingCycle body executes at any time; isRunning is set
\* exactly while a body executes; a firing that finds a cycle running does no
\* work and leaves isRunning set.
SingleFlightCycle ==
  /\ [](/\ Cardinality({c \in CycleIds : CycleRunning(c)}) <= 1
        /\ isRunning <=> \E c \in CycleIds : CycleRunning(c))
  /\ [][("cycleSkipped" \in last' /\ last' # last) => (isRunning /\ NoWork)]_vars

\* a firing was skipped while the running cycle was waiting for a buy
SkippedDuringBuy ==
  /\ "cycleSkipped" \in last
  /\ isRunning
  /\ \E c \in CycleIds : cyc[c].pc = "buyTx"

\* the stop-loss evaluations in flight
Evaluating ==
  {<<"cycle", c>> : c \in {x \in CycleIds : cyc[x].pc \in EvalPcs}}
    \cup {<<"monitor", m>> : m \in {x \in MonIds : mon[x].pc \in EvalPcs}}

\* C2: at most one evaluateStopLosses call is in flight, whichever of the
\* monitor tick and the trading cycle started it.
SingleFlightStopLoss == Cardinality(Evaluating) <= 1

\* the sells submitted to the chain and not yet resolved, by lower-cased address
StopLossSubmitted ==
  {Lower(obj[Head(cyc[c].rest)].addr) : c \in {x \in CycleIds : cyc[x].pc = "tx"}}
    \cup {Lower(obj[Head(mon[m].rest)].addr) : m \in {x \in MonIds : mon[x].pc = "tx"}}

ForceSellSubmitted ==
  {Lower(cyc[c].fsAddr) : c \in {x \in CycleIds : cyc[x].pc = "fsTx"}}
    \cup {Lower(cmd[d].fsAddr) : d \in {x \in CmdIds : cmd[x].pc = "fsTx"}}

SellEntriesOf(pid) == {k \in 1..Len(history) : history[k].type = "sell" /\ history[k].pid = pid}

\* C3: a forced sell and a stop-loss sell of the same token address are never
\* both submitted, and no position gets more than one sell history entry.
SellsSerialised ==
  /\ StopLossSubmitted \cap ForceSellSubmitted = {}
  /\ \A pid \in Pids : Cardinality(SellEntriesOf(pid)) <= 1

Removed(pid) == pid \in Range(positions) /\ pid \notin Range(positions')

SellRecorded(pid) ==
  /\ Len(history') = Len(history) + 1
  /\ history'[Len(history')].type = "sell"
  /\ history'[Len(history')].pid = pid

\* C4: every step that removes a position appends exactly one sell history
\* entry for it, and every sell reported as successful removes its position.
SellDestroysAndRecords ==
  [][/\ \A pid \in Pids : Removed(pid) => SellRecorded(pid)
     /\ \A m \in MonIds : mon'[m].sold \subseteq mon[m].sold \cup {pid \in Pids : Removed(pid)}
    ]_vars

\* forceSell(a) run to its end from the current state with a successful sell
ForceSellDone(a, dry) ==
  LET t0 == FsCall(IdleCmd, a, positions, obj)
      F == FsPriceIn(t0, "none", dry)
  IN IF dry THEN F ELSE FsTx([F.t EXCEPT !.pc = "fsTx"], TRUE, "none")

\* the pass of frame t on the prices pm, through its first sell when that
\* sell succeeds
EvalPassDone(t, pm, dry) ==
  LET F == EvalPricesIn(t, pm, "none", dry)
  IN IF F.t.pc = "bal" THEN StopLossSoldIn(F.t, "none", dry) ELSE F

SameStore(F, G) == F.P = G.P /\ F.H = G.H

\* C5: on the same prices and with a successful sell, forceSell and
\* evaluateStopLosses leave positions and history the same whether dryRun is
\* set or not.
DryRunSameState ==
  /\ \A a \in env.sells :
       (getPosition(positions, obj, a) # 0 /\ chain[Lower(a)])
         => SameStore(ForceSellDone(a, TRUE), ForceSellDone(a, FALSE))
  /\ \A m \in MonIds : \A pm \in PriceMaps(mon[m].addrs) :
       (mon[m].pc = "prices" /\ EvalPassDone(mon[m], pm, FALSE).t.pc = "ret"
          /\ \A x \in mon[m].addrs : chain[x])
         => SameStore(EvalPassDone(mon[m], pm, TRUE), EvalPassDone(mon[m], pm, FALSE))

PassThrew == last' \cap {"sellThrew", "saveThrew"} # {}

\* C6: a pass of evaluateStopLosses that meets a failure on one position
\* still evaluates every later position of its snapshot: no pass ends on an
\* exception with positions left.
PassSurvivesFailure ==
  [][/\ \A m \in MonIds :
          (mon[m].pc \in EvalPcs /\ mon'[m].pc \notin EvalPcs /\ PassThrew)
            => Len(mon[m].rest) <= 1
     /\ \A c \in CycleIds :
          (cyc[c].pc \in EvalPcs /\ cyc'[c].pc \notin EvalPcs /\ PassThrew)
            => Len(cyc[c].rest) <= 1
    ]_vars

\* the position of frame t is due on the prices pm: a price came back for it
\* and, once currentPrice and highestPrice are updated, it is at or below the stop
Due(asked, pm, pid) ==
  LET a == Lower(obj[pid].addr)
  IN a \in asked /\ pm[a] # NoPrice /\ StopTriggered(UpdatePrice(obj[pid], pm[a]))

DueIn(asked, pm, snap) == {k \in 1..Len(snap) : Due(asked, pm, snap[k])}

\* a pass that has run the loop on snap sells what is due: in dry-run all of
\* it is reported, live the first due position is being sold
SellsWhatIsDue(t2, asked, pm, snap) ==
  LET due == DueIn(asked, pm, snap)
  IN IF dryRun
       THEN t2.pc = "ret" /\ {snap[k] : k \in due} \subseteq t2.sold
     ELSE IF due = {} THEN t2.pc = "ret"
     ELSE t2.pc = "bal" /\ Head(t2.rest) = snap[SetMin(due)]

ExitsOfFrame(t) ==
  /\ t.pc = "prices" =>
       \A pm \in PriceMaps(t.addrs) :
         SellsWhatIsDue(EvalPrices(t, pm, "none").t, t.addrs, pm, positions)
  /\ t.pc = "bal" =>
       IF chain[Lower(obj[Head(t.rest)].addr)]
         THEN EvalBalance(t, "read", "none").t.pc = "tx"
         ELSE SellsWhatIsDue(EvalBalance(t, "read", "none").t, AddrLow, t.prices,
                             Tail(t.rest))
  /\ t.pc = "tx" =>
       \A ok \in BOOLEAN :
         SellsWhatIsDue(EvalTx(t, ok, "none").t, AddrLow, t.prices, Tail(t.rest))

NoEntryWhilePaused == tradingPaused => last \cap {"buyStarted", "bought"} = {}

PreGatePcs == {"eth", "prices", "bal", "tx", "post", "review", "advise",
               "fsPrice", "fsBal", "fsTx"}

\* cycle c evaluates the entry conditions of step 4 in this step
GateStep(c) == cyc[c].pc \in PreGatePcs /\ cyc'[c].pc \in {"idle", "usdc"}

BuyEntries(h) == {k \in 1..Len(h) : h[k].type = "buy"}

NoEntry(c) ==
  /\ ~cyc[c].bought
  /\ nextPid' = nextPid
  /\ Range(positions') \subseteq Range(positions)
  /\ Cardinality(BuyEntries(history')) = Cardinality(BuyEntries(history))

Open(pid) == pid \in Range(positions)

\* C7: a stop-loss sell that fails leaves the position open and the history
\* as it was; every tick that gets a price at or below the stop attempts the
\* sell again; with the price staying there and sells succeeding again and
\* again, every open position is eventually removed.
FailedSellRetried ==
  /\ [][("sellFailed" \in last' /\ last' # last)
          => (positions' = positions /\ history' = history)]_vars
  /\ [](\A m \in MonIds : ExitsOfFrame(mon[m]))
  /\ \A pid \in Pids : Open(pid) ~> ~Open(pid)

\* a swap has just failed with both tokens still in the wallet
SellJustFailed ==
  /\ "sellFailed" \in last
  /\ positions = <<1, 2>>
  /\ \A x \in AddrLow : chain[x]
  /\ \A pid \in Pids : SellEntriesOf(pid) = {}

\* C11: in every reachable state the number of open positions is at most
\* config.maxPositions: the free slots are computed once per cycle and the
\* batch of buys is cut to them.
CapRespected == Len(positions) <= maxPositions

\* a buy has filled the last free slot
BoughtUpToCap == "bought" \in last /\ Len(positions) = maxPositions

\* C12: at most one open position per token address, compared without case,
\* whatever candidates and buy verdicts the scanner and the analyst return.
OnePositionPerToken ==
  \A i, j \in 1..Len(positions) :
    i # j => Lower(obj[positions[i]].addr) # Lower(obj[positions[j]].addr)

\* the position object p is open before and after the step
Kept(p) == p \in Range(positions) /\ p \in Range(positions')

\* C13: the highestPrice of an open position never decreases; it changes only
\* to a newly observed price that is strictly greater, and a falling current
\* price leaves it as it is.
HighestPriceRatchet ==
  [][\A p \in Pids :
       Kept(p) =>
         /\ obj'[p].high >= obj[p].high
         /\ obj'[p].high # obj[p].high =>
              obj'[p].cur > obj[p].high /\ obj'[p].high = obj'[p].cur
         /\ obj'[p].cur <= obj[p].high => obj'[p].high = obj[p].high]_vars

\* a position whose price rose above the entry and then fell
FellFromPeak ==
  \E p \in Range(positions) : obj[p].high > obj[p].entry /\ obj[p].cur < obj[p].high

\* C14: the stop price of an open position, computed tick after tick, never
\* decreases; it rises only when highestPrice rises and a falling current
\* price does not lower it.
StopPriceRatchet ==
  [][\A p \in Pids :
       Kept(p) =>
         /\ computeStopPrice(obj'[p]).stopPrice100 >= computeStopPrice(obj[p]).stopPrice100
         /\ computeStopPrice(obj'[p]).stopPrice100 > computeStopPrice(obj[p]).stopPrice100
              => obj'[p].high > obj[p].high]_vars

\* a position that entered a tighter tier and whose price then fell
FellInTighterTier ==
  \E p \in Range(positions) :
    /\ computeStopPrice(obj[p]).trailPercent < DefaultTrailPercent
    /\ obj[p].cur < obj[p].high

\* the trail the tiers prescribe for a profit of (high - entry) / entry
TierTrail(o) ==
  IF (o.high - o.entry) * 100 >= 100 * o.entry THEN 5
  ELSE IF (o.high - o.entry) * 100 >= 50 * o.entry THEN 10
  ELSE 20

PositionAt(entry, high) == [addr |-> "a", entry |-> entry, cur |-> high, high |-> high]

StartIdempotent ==
  /\ cronTasks <= 1
  /\ life = "stopped" => cronTasks = 0 /\ ~stopLossInterval

\* a call of tradingCycle passes its guard, a monitor tick starts its pass
CycleBegins == \E c \in CycleIds : cyc[c].pc = "idle" /\ cyc'[c].pc # "idle"
TickBegins == \E m \in MonIds : mon[m].pc = "idle" /\ mon'[m].pc # "idle"

\* C17: after stopOrchestrator, and until a later start, no trading cycle and
\* no monitor tick begins; the stop leaves the cycle and the tick in flight as
\* they are, and each of them goes on, with its sells, buys and store writes,
\* until it ends.
StopSparesTicksInFlight ==
  /\ [][/\ life = "stopped" /\ life' = "stopped" => ~CycleBegins /\ ~TickBegins
        /\ life' = "stopped" /\ "stopped" \in last' =>
             /\ cyc' = cyc /\ mon' = mon
             /\ UNCHANGED <<isRunning, isEvaluatingStopLoss, positions, obj, history, usdc>>
    ]_vars
  /\ [](life = "stopped" =>
          /\ \A c \in CycleIds : cyc[c].pc # "idle" => ENABLED PlainCycleNext(c)
          /\ \A m \in MonIds : mon[m].pc # "idle" => ENABLED MonNext(m))

\* a cycle that was in flight at the stop has bought afterwards
BoughtAfterStop == life = "stopped" /\ "bought" \in last

\* no cycle and no tick is in flight
Idle == (\A c \in CycleIds : cyc[c].pc = "idle") /\ (\A m \in MonIds : mon[m].pc = "idle")

\* C18: the scheduler becomes stopped only when no cycle and no tick is
\* running, and once stopped it stays stopped: no later call, startOrchestrator
\* included, makes a cycle or a tick begin again.
StoppedIsTerminal ==
  [][/\ life # "stopped" /\ life' = "stopped" => Idle
     /\ life = "stopped" => life' = "stopped" /\ ~CycleBegins /\ ~TickBegins]_vars

\* C19: whatever the number of cycles that find the ETH balance below the
\* threshold, any two low-ETH notifications are more than one hour apart.
WarningsDebounced ==
  \A i, j \in 1..Len(ethWarnings) :
    i < j => ethWarnings[j] - ethWarnings[i] > HourMs

\* a second warning has just been sent
WarnedAgain == "lowEth" \in last /\ Len(ethWarnings) >= 2

\* the balance re-read of a buy resolves for cycle c
BalanceRead(c) == cyc[c].pc = "buyBal" /\ cyc'[c].pc # "buyBal"

\* buyToken is called by cycle c
BuyCalled(c) == BalanceRead(c) /\ cyc'[c].pc = "buyTx"

\* percent of a balance, to the nearest unit
Share(balance, percent) ==
  CHOOSE x \in 0..balance * percent : 2 * (100 * x - balance * percent) \in -99..100

AppendedDropping(d) ==
  /\ Len(history') = Len(history) + 1 - d
  /\ \A k \in 1..(Len(history) - d) : history'[k] = history[k + d]

\* the step is a store call that reaches addHistoryEntry
Appends ==
  \/ "sellRecorded" \in last'
  \/ "addPosition" \in last' /\ "posWriteThrew" \notin last'

\* C21: the trade history is an append-only log capped at 100 entries: it
\* never holds more than 100 entries, a store call that appends leaves the
\* log with the new entry at the end, every other retained entry as it was
\* and in the same order, and the oldest entry dropped only when the log was
\* already full, and no other store call changes the log.
HistoryAppendOnlyCapped ==
  [][ /\ Len(history') <= HistoryCap
      /\ life = "loaded" =>
            IF Appends
              THEN IF Len(history) = HistoryCap
                     THEN AppendedDropping(1) ELSE AppendedDropping(0)
              ELSE history' = history
    ]_vars

\* a sell was appended to a full log and the oldest entry of the file is gone
OldestDropped ==
  /\ Len(history) = HistoryCap
  /\ history[1] = FullHistory[2]
  /\ history[HistoryCap].type = "sell"

\* C22: every store call is all-or-nothing on the files: a call that raises
\* leaves every file exactly as it was before the call, and a call that
\* returns leaves every collection it changed fully written to its file.
DurableAllOrNothing ==
  [][ life = "loaded" =>
        IF "threw" \in last'
          THEN disk' = disk
          ELSE /\ positions' # positions => disk'.pos = File(PosImage(positions', obj'))
               /\ history' # history => disk'.hist = File(history')
               /\ blacklist' # blacklist => disk'.bl = File(blacklist')
    ]_vars

\* C23: a store call whose write of the positions file fails raises and
\* keeps its in-memory change: after addPosition the new position is the last
\* of the open set, after removePosition the position is gone from it; and a
\* call that changed the open set without getting it into the file raised.
WriteFailureKeepsMutation ==
  [][ life = "loaded" =>
        /\ "posWriteThrew" \in last' =>
              /\ "threw" \in last'
              /\ IF "addPosition" \in last'
                   THEN /\ positions' = Append(positions, nextPid)
                        /\ obj'[nextPid] # NoObj
                   ELSE \E k \in 1..Len(positions) :
                          /\ positions' = Splice(positions, k)
                          /\ obj'[positions[k]] = NoObj
        /\ (positions' # positions /\ disk'.pos # File(PosImage(positions', obj'))) =>
              "threw" \in last'
    ]_vars

\* removePosition raised on its write: the file still holds the position,
\* the open set does not
RemovedInMemoryOnly ==
  /\ {"removePosition", "threw"} \subseteq last
  /\ positions = <<>>
  /\ disk.pos = File(<<HeldObj("A")>>)

\* what a file that parses holds, nothing for a file that is missing or does
\* not parse
Stored(file, empty) == IF file.state = "ok" THEN file.data ELSE empty

\* C24: loading never fails on bad files: initPositionManager completes from
\* every data directory, and each of the three collections is what its own
\* file holds when that file parses and empty when it is missing or does not
\* parse, whatever the state of the other two files.
LoadNeverFails ==
  /\ [](life = "new" => ENABLED initPositionManager)
  /\ [][ life = "new" /\ life' = "loaded" =>
           /\ [k \in 1..Len(positions') |-> obj'[positions'[k]]] = Stored(disk.pos, <<>>)
           /\ blacklist' = {Lower(x) : x \in Stored(disk.bl, {})}
           /\ history' = Stored(disk.hist, <<>>)
           /\ disk' = disk
       ]_vars

\* loaded from a directory whose positions file does not parse and whose
\* history file is missing, while the blacklist file is good
LoadedAroundBadFiles ==
  /\ life = "loaded"
  /\ last = {"loaded"}
  /\ disk.pos.state = "corrupt" /\ disk.hist.state = "missing" /\ disk.bl.state = "ok"
  /\ positions = <<>> /\ history = <<>> /\ blacklist = {"a"}

\* the spellings of one address
Variants(a) == {x \in Addrs : Lower(x) = Lower(a)}

\* C25: blacklist membership is case-insensitive and independent of the
\* positions: after addToBlacklist(a) every spelling of a is a member and no
\* other membership changed, adding a member again changes nothing,
\* removeFromBlacklist(a) in any spelling leaves no spelling of a a member,
\* and adding or removing a position leaves the blacklist as it was.
BlacklistCaseInsensitive ==
  [][ /\ \A a \in Addrs : addToBlacklist(a) =>
             /\ \A x \in Variants(a) : IsBlacklisted(blacklist', x)
             /\ \A x \in Addrs \ Variants(a) :
                   IsBlacklisted(blacklist', x) = IsBlacklisted(blacklist, x)
             /\ IsBlacklisted(blacklist, a) => blacklist' = blacklist
             /\ positions' = positions
      /\ \A a \in Addrs : removeFromBlacklist(a) =>
             /\ \A x \in Variants(a) : ~IsBlacklisted(blacklist', x)
             /\ \A x \in Addrs \ Variants(a) :
                   IsBlacklisted(blacklist', x) = IsBlacklisted(blacklist, x)
             /\ positions' = positions
      /\ (life = "loaded" /\ positions' # positions) => blacklist' = blacklist
    ]_vars

\* token a was blacklisted under its upper-case spelling while a position
\* of it, spelled "A", is open, and the file holds the lower-case member
BlacklistedWhileHeld ==
  /\ last = {"addToBlacklist"}
  /\ blacklist = {"a"}
  /\ disk.bl = File({"a"})
  /\ Len(positions) = 1 /\ obj[positions[1]].addr = "A"
  /\ IsBlacklisted(blacklist, "A") /\ IsBlacklisted(blacklist, "a")

\* the cycle is inside the forceSell of its review
FsPcs == {"fsPrice", "fsBal", "fsTx"}

\* the step leaves the positions, the log and the wallet as they were
NothingTraded ==
  /\ positions' = positions
  /\ PosImage(positions', obj') = PosImage(positions, obj)
  /\ history' = history
  /\ chain' = chain
  /\ usdc' = usdc

\* the advice recommends selling a position of the list P
SellNamed(adv, P, O) ==
  \E k \in 1..Len(adv) : \E j \in 1..Len(P) :
    adv[k][2] = "sell" /\ SymbolOf(O[P[j]].addr) = adv[k][1]

AdvisorySellRecorded ==
  [][ \A c \in CycleIds :
        (CycleFsTx(c) /\ chain' # chain) =>
          /\ Len(history') = Len(history) + 1
          /\ history'[Len(history')].type = "sell"
          /\ Lower(history'[Len(history')].addr) = Lower(cyc[c].fsAddr)
          /\ history'[Len(history')].reason = "advisory"
    ]_vars

\* the cycle at the entry conditions of steps 4 and 5, as a cycle without a
\* review reaches them from this state
AtEntryConditions(c) ==
  IF tradingPaused \/ Len(positions) >= env.maxPositions
    THEN cyc'[c].pc = "idle" /\ ~isRunning'
    ELSE /\ cyc'[c].pc = "usdc"
         /\ cyc'[c].slots = env.maxPositions - Len(positions)
         /\ cyc'[c].bought = cyc[c].bought
         /\ isRunning'

\* C28: the advisory step is fail-open: with the analyst disabled a cycle
\* never enters the review, and when reviewPortfolio fails or returns nothing
\* the cycle sells nothing, calls no forceSell and stands at the entry
\* conditions exactly as a cycle without a review does.
AdviceFailOpen ==
  /\ [](~aiEnabled => \A c \in CycleIds : cyc[c].pc \notin {"review", "advise"} \cup FsPcs)
  /\ [][ \A c \in CycleIds :
           /\ CycleReviewOn(c, <<>>) => NothingTraded /\ AtEntryConditions(c)
           /\ (~aiEnabled /\ CyclePost(c)) => NothingTraded /\ AtEntryConditions(c)
       ]_vars

\* the review gave nothing and the cycle went on to read the balance for a buy
WentOnWithoutAdvice ==
  /\ aiEnabled
  /\ "noAdvice" \in last
  /\ positions # <<>>
  /\ \E c \in CycleIds : cyc[c].pc = "usdc" /\ cyc[c].slots = 1

\* a monitor with a stop-loss: its stop is positive and below the price the
\* lookup gave when it was created
WellFormedStop(m) == m.stopLossPrice > 0 /\ m.stopLossPrice < m.entryPrice

\* C29: a malformed stop-loss policy is rejected at creation: every monitor
\* the plain-text handler or /simple has added has a stop-loss price that is
\* positive and below the looked-up price, and a message of these handlers
\* either adds one such monitor, replacing at most the monitor of the same
\* address, or leaves the monitors exactly as they were.
MalformedStopRejected ==
  /\ [](\A m \in monitors : m.type # "buyback" => WellFormedStop(m))
  /\ [][ "buyback" \notin last' =>
           \/ monitors' = monitors
           \/ \E m \in monitors' :
                /\ WellFormedStop(m)
                /\ "added" \in last'
                /\ monitors' \ {m} = {x \in monitors : x.address # m.address}
       ]_vars

\* a message with a stop at or above the price was turned down while a
\* monitor is tracked
StopAboveTurnedDown ==
  /\ last = {"simple", "stopAbove"}
  /\ \E m \in monitors : m.type = "simple" /\ m.stopLossPrice = 10 /\ m.entryPrice = 20

\* the position pid is left as it was, stays open and is not the one the tick
\* goes on to sell
Skipped(m, pid) ==
  /\ pid \in Range(positions')
  /\ obj'[pid] = obj[pid]
  /\ ~(mon'[m].pc \in {"bal", "tx"} /\ Head(mon'[m].rest) = pid)

\* C30: when getTokenPrices has no price for a position, the pass skips that
\* position without throwing: its currentPrice and highestPrice stay as they
\* were, no sell is attempted for it and it stays in the open set, both in
\* the step that receives the prices and in the later steps of the pass that
\* still have the position ahead of them.
NoPriceSkips ==
  [][ \A m \in MonIds : \A pid \in Range(positions) :
        /\ \A pm \in PriceMaps(mon[m].addrs) :
              (MonEvalPricesOn(m, pm) /\ pm[Lower(obj[pid].addr)] = NoPrice) =>
                Skipped(m, pid) /\ mon'[m].pc # "thrown"
        /\ ( /\ MonEvalBalance(m) \/ MonEvalTx(m)
             /\ pid \in Range(Tail(mon[m].rest))
             /\ mon[m].prices[Lower(obj[pid].addr)] = NoPrice ) =>
              Skipped(m, pid)
    ]_vars

\* a pass got a price for A and none for b: A was repriced, b is as it was
OneSkippedOneRepriced ==
  /\ "noPrice" \in last
  /\ Len(positions) = 2
  /\ obj[2] = HeldObj("b")
  /\ obj[1].cur = 15

\* the monitor of a state with one monitor
TheMonitor == CHOOSE m \in monitors : TRUE

\* L is the multiple of step that the gain of price p over the entry has reached
OnMilestone(m, p, L) ==
  /\ L % m.notifyPercent = 0
  /\ L * m.entryPrice <= (p - m.entryPrice) * 100
  /\ (p - m.entryPrice) * 100 < (L + m.notifyPercent) * m.entryPrice

MilestoneLevels == {k * NotifyStep : k \in -4..8}

\* C31: in every tick of a monitor that has a price, a milestone is notified
\* exactly when the level floor(gain/step)*step is positive and above
\* lastNotifiedMilestone, which then becomes that level (the highest one the
\* price has reached, nothing for the levels it jumped over) and otherwise
\* stays; so over the ticks of a monitor lastNotifiedMilestone never
\* decreases and no level is notified twice.
MilestoneMonotonic ==
  [][\A p \in WatchPrices, buy \in {"ok", "failed"} :
       WatchTickOn(p, buy) =>
         LET m == TheMonitor
             n == TheMonitor'
         IN  /\ n.lastNotifiedMilestone >= m.lastNotifiedMilestone
             /\ PriceMissing(p) => n = m /\ "milestone" \notin last'
             /\ ~PriceMissing(p) =>
                  \E L \in MilestoneLevels :
                    /\ OnMilestone(m, p, L)
                    /\ ("milestone" \in last') <=> (L > 0 /\ L > m.lastNotifiedMilestone)
                    /\ n.lastNotifiedMilestone =
                         IF "milestone" \in last' THEN L ELSE m.lastNotifiedMilestone]_vars

\* the price went from the entry to +80%: level 75 was notified, 50 never was
JumpedToHighest ==
  /\ monitors # {}
  /\ "milestone" \in last
  /\ TheMonitor.lastNotifiedMilestone = 3 * NotifyStep

\* L is the number of whole drop intervals that price p lies below the entry
OnDrop(m, p, L) ==
  /\ L * m.buybackPercent * m.entryPrice <= (m.entryPrice - p) * 100
  /\ (m.entryPrice - p) * 100 < (L + 1) * m.buybackPercent * m.entryPrice

DropLevels == -10..10

\* C32: in every tick of a buyback monitor a buyback triggers only when the
\* price is below the entry and the level floor(dropPercent/buybackPercent) is
\* above lastBuybackLevel (and, with budget left, always then), which becomes
\* that level and otherwise stays; lastBuybackLevel never decreases over the
\* ticks, so a level that has triggered does not trigger again after the
\* price has recovered and fallen back to it.
BuybackLevelMonotonic ==
  [][\A p \in WatchPrices, buy \in {"ok", "failed"} :
       WatchTickOn(p, buy) =>
         LET m == TheMonitor
             n == TheMonitor'
         IN  /\ n.lastBuybackLevel >= m.lastBuybackLevel
             /\ PriceMissing(p) => "buyback" \notin last'
             /\ ~PriceMissing(p) =>
                  \E L \in DropLevels :
                    /\ OnDrop(m, p, L)
                    /\ "buyback" \in last' => p < m.entryPrice /\ L > m.lastBuybackLevel
                    /\ (p < m.entryPrice /\ L > m.lastBuybackLevel
                          /\ m.usdcSpent < m.totalUsdcBudget) => "buyback" \in last'
                    /\ n.lastBuybackLevel =
                         IF "buyback" \in last' THEN L ELSE m.lastBuybackLevel]_vars

\* level 3 has triggered after an earlier level had
DeeperLevelTriggered ==
  /\ monitors # {}
  /\ "buyback" \in last
  /\ TheMonitor.lastBuybackLevel >= 3
  /\ TheMonitor.usdcSpent = 2 * PerBuy

\* C33: the cumulative usdcSpent of a buyback monitor never exceeds its
\* totalUsdcBudget; a tick adds min(usdcPerBuyback, totalUsdcBudget - usdcSpent)
\* when its buy is made and nothing otherwise, and once usdcSpent has reached
\* the budget a further trigger changes neither the amount nor the level.
SpentWithinBudget ==
  /\ [](\A m \in monitors : 0 <= m.usdcSpent /\ m.usdcSpent <= m.totalUsdcBudget)
  /\ [][\A p \in WatchPrices, buy \in {"ok", "failed"} :
          WatchTickOn(p, buy) =>
            LET m == TheMonitor
                n == TheMonitor'
                rest == m.totalUsdcBudget - m.usdcSpent
            IN  /\ n.usdcSpent - m.usdcSpent =
                     IF "buyback" \in last' /\ buy = "ok"
                       THEN (IF m.usdcPerBuyback < rest THEN m.usdcPerBuyback ELSE rest)
                       ELSE 0
                /\ usdc' = usdc - (n.usdcSpent - m.usdcSpent)
                /\ rest <= 0 => "buyback" \notin last'
                             /\ n.lastBuybackLevel = m.lastBuybackLevel]_vars

\* the budget of 250 is used up (100, 100, 50) and a deeper level has come
BudgetUsedUp ==
  /\ monitors # {}
  /\ "exhausted" \in last
  /\ TheMonitor.totalUsdcBudget = 250
  /\ TheMonitor.usdcSpent = 250

FlatVerdicts == {"take-profit", "stop-loss", "hold"}

\* C34: for a held position priced at p the verdict of checkFlatExit is
\* take-profit when p >= entry*(1+TP/100), also when the stop-loss threshold
\* is met in the same tick; otherwise stop-loss when p <= entry*(1-SL/100);
\* otherwise hold; and it is the only verdict of the tick.
FlatExitVerdict ==
  [][\A p \in FocusPrices, ok \in BOOLEAN :
       (FocusTickOn(p, ok) /\ positions # <<>> /\ ~PriceMissing(p)) =>
         LET entry == obj[positions[1]].entry
             profit == p * 100 >= entry * (100 + env.takeProfitPercent)
             loss == p * 100 <= entry * (100 - env.stopLossPercent)
         IN  /\ Cardinality(last' \cap FlatVerdicts) = 1
             /\ profit => "take-profit" \in last'
             /\ (~profit /\ loss) => "stop-loss" \in last'
             /\ (~profit /\ ~loss) => "hold" \in last']_vars

\* a price that meets both thresholds was judged take-profit
BothMetTakeProfit ==
  /\ positions # <<>>
  /\ {"take-profit", "sellFailed"} \subseteq last
  /\ LET o == obj[positions[1]]
     IN  o.cur * 100 <= o.entry * (100 - env.stopLossPercent)

TickRunning(m) == mon[m].pc \in EvalPcs \cup {"notify"}

\* C36: a trading cycle that ends, however it ends, leaves isRunning false,
\* and a monitor tick that ends leaves isEvaluatingStopLoss false; a guard is
\* set only while a body that set it is still executing, so a firing is
\* skipped only because of a cycle, a tick or a cycle's evaluation that has
\* not ended.
GuardsReleased ==
  /\ [](/\ isRunning => \E c \in CycleIds : CycleRunning(c)
        /\ isEvaluatingStopLoss =>
             \/ \E m \in MonIds : TickRunning(m)
             \/ \E c \in CycleIds : cyc[c].pc \in EvalPcs)
  /\ [][/\ \A c \in CycleIds : (CycleRunning(c) /\ ~CycleRunning(c)') => ~isRunning'
        /\ \A m \in MonIds : (mon[m].pc # "idle" /\ mon'[m].pc = "idle") =>
                               ~isEvaluatingStopLoss'
        /\ ("cycleSkipped" \in last' /\ last' # last) =>
              \E c \in CycleIds : CycleRunning(c)'
        /\ ("tickSkipped" \in last' /\ last' # last) =>
              \/ \E m \in MonIds : TickRunning(m)'
              \/ \E c \in CycleIds : cyc'[c].pc \in EvalPcs]_vars

\* a monitor tick has just ended by an exception of its sell and the guard
\* is free
TickThrewGuardFree ==
  /\ "sellThrew" \in last
  /\ \A m \in MonIds : mon[m].pc = "idle"
  /\ \A c \in CycleIds : ~CycleRunning(c)
  /\ ~isEvaluatingStopLoss /\ ~isRunning

\* C37: every open position has highestPrice >= entryPrice and
\* highestPrice >= currentPrice, from the buy that created it on (the three
\* are equal then), and a step that reprices an open position leaves it with
\* highestPrice >= currentPrice and its entryPrice as it was.
PeakAboveEntryAndPrice ==
  /\ [](\A k \in 1..Len(positions) :
          /\ obj[positions[k]].high >= obj[positions[k]].entry
          /\ obj[positions[k]].high >= obj[positions[k]].cur)
  /\ [][\A k \in 1..Len(positions') :
          LET pid == positions'[k]
          IN  /\ pid \notin Range(positions) =>
                   /\ obj'[pid].high = obj'[pid].entry
                   /\ obj'[pid].cur = obj'[pid].entry
              /\ (pid \in Range(positions) /\ obj'[pid] # obj[pid]) =>
                   /\ obj'[pid].high >= obj'[pid].cur
                   /\ obj'[pid].entry = obj[pid].entry]_vars

\* a position bought in this run has peaked above its entry and fallen back
BoughtPeakedFell ==
  /\ \E h \in Range(history) : h.type = "buy"
  /\ \E k \in 1..Len(positions) :
       LET o == obj[positions[k]]
       IN  o.high > o.entry /\ o.cur < o.entry

\* the cycle is past its entry conditions: balance check, scan and buys
EntryPcs == {"usdc", "scan", "buyBal", "buyTx", "sleep"}

SellEntries(h) == {k \in 1..Len(h) : h[k].type = "sell"}

\* C38: within one trading cycle the exits come before the entries: a cycle
\* that has started a buy is past its stop-loss evaluation and its advisory
\* sells and never returns to them, it sells and removes nothing from then
\* on, and the free slots it gates with are counted from the positions left
\* after its own exits, in the step that ends them.
ExitsBeforeEntries ==
  /\ [](\A c \in CycleIds : cyc[c].bought => cyc[c].pc \notin PreGatePcs)
  /\ [][\A c \in CycleIds :
          /\ cyc[c].pc \in EntryPcs =>
               /\ cyc'[c].pc \notin PreGatePcs
               /\ cyc'[c] # cyc[c] =>
                    /\ Cardinality(SellEntries(history')) = Cardinality(SellEntries(history))
                    /\ Range(positions) \subseteq Range(positions')
          /\ (GateStep(c) /\ cyc'[c].pc = "usdc") =>
               /\ cyc'[c].slots = maxPositions - Len(positions')
               /\ ~cyc'[c].bought
          /\ (cyc[c].pc = "usdc" /\ cyc'[c].pc = "scan") => usdc >= MinUsdcBalance]_vars

\* the advisory sell of the cycle has just completed and the same step has
\* counted the free slots without the position it sold
GatedAfterAdvisorySell ==
  \E c \in CycleIds :
    /\ "forceSold" \in last
    /\ cyc[c].pc = "usdc"
    /\ positions = <<>>
    /\ cyc[c].slots = maxPositions

====
